---- MODULE Spec2Model ----
(***************************************************************************)
(* Control-point graph generator of layout_gen/generate_control_points_v16 *)
(* (function main and its helpers), as a state machine: the worksheet is   *)
(* the input, main's local tables are the state, and each block of main is *)
(* one action, taken in program order.                                     *)
(*                                                                         *)
(* Numbers.  Python floats are modelled as fixed-point integers: one unit  *)
(* is the tolerance EPS (1e-9 in the source) and a whole cell is Cell      *)
(* units, so float(n) is n * Cell.  Row numbers are the source's.  The     *)
(* long extents of the sheet are scaled by two bounds: HSpan is the number *)
(* of columns from E to AIL (917 in the sheet) and VSpan the length of a   *)
(* vertical range (73 in the sheet); the columns right of AIL keep their   *)
(* distances to AIL.                                                       *)
(***************************************************************************)
EXTENDS Integers, Sequences, FiniteSets, TLC

VARIABLES ws, pc, points, coord_region, next_map, created, inout, next_list, out_json, smp

vars == <<ws, pc, points, coord_region, next_map, created, inout, next_list, out_json, smp>>

\* what the flagging, assembly and export blocks write
outv == <<inout, next_list, out_json>>

-----------------------------------------------------------------------------
(* Bounds *)

Cell == 2
HSpan == 10
VSpan == 7
MaxPatches == 2
MaxPos == 7
MaxStep == 4
MaxRot == 2
MaxCands == 3
MaxGap == 2

-----------------------------------------------------------------------------
(* Arithmetic helpers *)

EPS == 1

Abs(n) == IF n < 0 THEN 0 - n ELSE n

Min2(a, b) == IF a <= b THEN a ELSE b

Max2(a, b) == IF a >= b THEN a ELSE b

\* float(n) for a whole number n
F(n) == n * Cell

\* int(round(v)): Python 3 rounds a half to the even neighbour
Round(v) ==
    LET q == v \div Cell
        r == v % Cell
    IN  IF 2 * r < Cell THEN q
        ELSE IF 2 * r > Cell THEN q + 1
        ELSE IF q % 2 = 0 THEN q ELSE q + 1

Last(s) == s[Len(s)]

-----------------------------------------------------------------------------
(* Sampler *)

RECURSIVE SampleLoop(_, _, _, _)
\* the while loop of sample_positions_including_end
SampleLoop(xs, x, step, x_end) ==
    IF x + step <= x_end + EPS
    THEN SampleLoop(Append(xs, x + step), x + step, step, x_end)
    ELSE xs

sample_positions_including_end(x_start, x_end, step) ==
    LET a  == IF x_end < x_start THEN x_end ELSE x_start
        b  == IF x_end < x_start THEN x_start ELSE x_end
        xs == SampleLoop(<<a>>, a, step, b)
    IN  IF Abs(Last(xs) - b) > EPS THEN Append(xs, b) ELSE xs

RECURSIVE SampleIntLoop(_, _, _, _)
\* the while loop of sample_int_positions_including_end
SampleIntLoop(ys, y, step, end) ==
    IF y + step <= end
    THEN SampleIntLoop(Append(ys, y + step), y + step, step, end)
    ELSE ys

sample_int_positions_including_end(start, end, step) ==
    LET a  == IF end < start THEN end ELSE start
        b  == IF end < start THEN start ELSE end
        ys == SampleIntLoop(<<a>>, a, step, b)
    IN  IF Last(ys) # b THEN Append(ys, b) ELSE ys

-----------------------------------------------------------------------------
(* Sheet geometry: column_index_from_string of the columns main names *)

col_A == 1
col_E == 5
col_AIL == col_E + HSpan
col_AIP == col_AIL + 4
col_AIS == col_AIL + 7
col_AIT == col_AIL + 8
col_AIU == col_AIL + 9
col_AIV == col_AIL + 10
col_AIY == col_AIL + 13
col_AJB == col_AIL + 16
col_AJE == col_AIL + 19

\* left of AIS is scanned for colored horizontal regions
col_max_use == col_AIS - 1

row_E13 == 13
row_A28 == 28
row_E28 == 28
row_E120 == 120

None == "None"

-----------------------------------------------------------------------------
(* The worksheet: solid fills by cell, merged ranges, and its dimensions *)

\* color_id(ws.cell(row=r, column=c)): the fill's signature, or None
color_id(sheet, r, c) ==
    IF <<r, c>> \in DOMAIN sheet.cells THEN sheet.cells[<<r, c>>] ELSE None

Rect(r1, r2, c1, c2, sig) == [r1 |-> r1, r2 |-> r2, c1 |-> c1, c2 |-> c2, sig |-> sig]

RectCells(rc) == (rc.r1 .. rc.r2) \X (rc.c1 .. rc.c2)

\* the fills of a sheet painted rectangle by rectangle, a later one over an earlier
Paint(rects) ==
    LET all  == UNION {RectCells(rects[i]) : i \in 1..Len(rects)}
        top(cell) == CHOOSE i \in 1..Len(rects) :
                        /\ cell \in RectCells(rects[i])
                        /\ \A j \in (i+1)..Len(rects) : cell \notin RectCells(rects[j])
        kept == {cell \in all : rects[top(cell)].sig # None}
    IN  [cell \in kept |-> rects[top(cell)].sig]

SetMax(S) == CHOOSE m \in S : \A n \in S : n <= m

\* the sheet with these fills and merged ranges (min_col, min_row, max_col, max_row)
Sheet(rects, merged) ==
    LET cells == Paint(rects)
    IN  [cells      |-> cells,
         merged     |-> merged,
         max_row    |-> SetMax({1} \cup {k[1] : k \in DOMAIN cells} \cup {m[4] : m \in merged}),
         max_column |-> SetMax({1} \cup {k[2] : k \in DOMAIN cells} \cup {m[3] : m \in merged})]

\* the four anchor cells and the lanes they stand in
BaseRects ==
    << Rect(13, 13, col_E, col_AIL, "purple"),
       Rect(28, 28, col_A, col_A + 3, "blue"),
       Rect(28, 28, col_E, col_E + 6, "orange"),
       Rect(120, 120, col_E, col_E + 6, "green") >>

\* optional parts of a layout: fills and merged ranges
Palette ==
    << [rects |-> <<Rect(14, 14, col_E, col_AIL, "purple"),
                    Rect(227, 228, col_E, col_AIL, "purple")>>, merged |-> {}],
       [rects |-> <<Rect(23, 24, col_E, col_AIL, "purple"),
                    Rect(24, 24, col_E + 1, col_E + 3, "blue")>>, merged |-> {}],
       [rects |-> <<Rect(13, 13, col_E + 5, col_E + 9, "blue"),
                    Rect(13, 13, col_E + 1, col_E + 1, "blue")>>, merged |-> {}],
       [rects |-> <<Rect(13, 13, col_E + 4, col_E + 5, "orange")>>, merged |-> {}],
       [rects |-> <<Rect(29, 29, col_E, col_E + 7, "orange"),
                    Rect(30, 30, col_E, col_E + 2, "orange"),
                    Rect(30, 30, col_E + 4, col_E + 9, "orange"),
                    Rect(31, 31, col_E, col_E + 2, "orange")>>, merged |-> {}],
       [rects |-> <<Rect(125, 126, col_E, col_E + 6, "orange"),
                    Rect(121, 121, col_E, col_E + 5, "green"),
                    Rect(127, 127, col_E, col_E + 6, "green")>>, merged |-> {}],
       [rects |-> <<Rect(16, 16, col_E, col_AIL, "purple")>>,
        merged |-> {<<col_E, 17, col_AIV + 1, 21>>}],
       [rects |-> <<Rect(26, 26, col_AIT, col_AIV, "blue"),
                    Rect(27, 27, col_AIS, col_AIV, "blue"),
                    Rect(26, 27, col_A + 2, col_A + 3, "blue"),
                    Rect(29, 29, col_A, col_A + 3, "blue"),
                    Rect(33, 33, col_AIU, col_AIU, "blue"),
                    Rect(30, 30, col_AIV, col_AIV, "blue"),
                    Rect(30, 31, col_AIS, col_AIS, "blue"),
                    Rect(30, 30, col_AIP, col_AIP, "blue"),
                    Rect(24, 24, col_AIU, col_AIU, "blue"),
                    Rect(19, 19, col_AIU, col_AIV, "blue"),
                    Rect(22, 22, col_E + 2, col_E + 3, "blue")>>, merged |-> {}],
       [rects |-> <<Rect(19, 19, col_AIL + 1, col_AIL + 2, "blue")>>,
        merged |-> {<<col_E, 17, col_AIL, 21>>}],
       [rects |-> <<Rect(120, 120, col_E, col_E, None)>>, merged |-> {}],
       [rects |-> <<Rect(13, 13, col_E, col_E, None)>>, merged |-> {}],
       [rects |-> <<Rect(28, 28, col_A, col_A, None)>>, merged |-> {}],
       [rects |-> <<Rect(28, 28, col_E, col_E, None)>>, merged |-> {}] >>

RECURSIVE PickRects(_, _)
\* the rectangles of the chosen palette entries, in palette order
PickRects(chosen, i) ==
    IF i > Len(Palette) THEN << >>
    ELSE (IF i \in chosen THEN Palette[i].rects ELSE << >>) \o PickRects(chosen, i + 1)

Layout(chosen) ==
    Sheet(BaseRects \o PickRects(chosen, 1),
          UNION {Palette[i].merged : i \in chosen})

Layouts ==
    {Layout(chosen) : chosen \in {S \in SUBSET (1..Len(Palette)) : Cardinality(S) <= MaxPatches}}

-----------------------------------------------------------------------------
(* Python containers *)

Range(lo, hi) == [i \in 1..(hi - lo + 1) |-> lo + i - 1]

RECURSIVE FlattenRange(_, _, _)
\* the sequences ss[lo], ..., ss[hi] one after the other
FlattenRange(ss, lo, hi) ==
    IF lo > hi THEN << >>
    ELSE IF lo = hi THEN ss[lo]
    ELSE LET mid == (lo + hi) \div 2
         IN  FlattenRange(ss, lo, mid) \o FlattenRange(ss, mid + 1, hi)

\* the sequences ss[i], ss[i+1], ... one after the other
Flatten(ss, i) == FlattenRange(ss, i, Len(ss))

\* key in d
HasKey(d, k) == k \in DOMAIN d

\* d[k] = v
DictSet(d, k, v) == (k :> v) @@ d

\* points[pid] = rec: a dict keeps insertion order, and a key set again keeps its place
DictPut(pts, rec) ==
    IF \E i \in 1..Len(pts) : pts[i].id = rec.id
    THEN [i \in 1..Len(pts) |-> IF pts[i].id = rec.id THEN rec ELSE pts[i]]
    ELSE Append(pts, rec)

NoId == <<"None">>

\* add_edge(next_map, a, b)
add_edge(nm, a, b) == IF b = NoId THEN nm ELSE nm \cup {<<a, b>>}

-----------------------------------------------------------------------------
(* contiguous_segments_for_color *)

RECURSIVE SegScan(_, _, _, _, _, _, _, _)
\* the for loop over c, with segs, in_seg and s as the loop's state
SegScan(sheet, row, color_sig, c, col_max, segs, in_seg, s) ==
    IF c > col_max
    THEN IF in_seg THEN Append(segs, <<s, col_max>>) ELSE segs
    ELSE IF color_id(sheet, row, c) = color_sig
         THEN IF ~in_seg
              THEN SegScan(sheet, row, color_sig, c + 1, col_max, segs, TRUE, c)
              ELSE SegScan(sheet, row, color_sig, c + 1, col_max, segs, in_seg, s)
         ELSE IF in_seg
              THEN SegScan(sheet, row, color_sig, c + 1, col_max, Append(segs, <<s, c - 1>>), FALSE, s)
              ELSE SegScan(sheet, row, color_sig, c + 1, col_max, segs, in_seg, s)

contiguous_segments_for_color(sheet, row, color_sig, col_min, col_max) ==
    SegScan(sheet, row, color_sig, col_min, col_max, << >>, FALSE, 0)

-----------------------------------------------------------------------------
(* Anchor colours *)

purple_sig == color_id(ws, row_E13, col_E)
blue_sig == color_id(ws, row_A28, col_A)
orange_sig == color_id(ws, row_E28, col_E)
green_sig == color_id(ws, row_E120, col_E)

-----------------------------------------------------------------------------
(* Node generation *)

\* a node record: id, x, y, region and the fields of meta
Pt(id, x, y, region, kind, row, col, seg) ==
    [id |-> id, x |-> x, y |-> y, region |-> region,
     kind |-> kind, row |-> row, col |-> col, seg |-> seg]

\* ids: the fields that the f-string formats
BlueId(r, c) == <<"BL", r, c>>
PurpleHId(r, i) == <<"PUH", r, i>>
GreyHId(band_y, i) == <<"GYH", band_y, i>>
SegId(tag, r, s_idx, i) == <<tag, r, s_idx, i>>
\* faulty variant of the vertical id: the range's first row is left out
VerticalIdByColumn(tag, x, r1, i) == <<tag, x, 0, i>>
VerticalId(tag, x, r1, i) == <<tag, x, r1, i>>

\* the tables main fills while it generates: points, coord_region, and the
\* number of assignments points[pid] = ...
Tables(pts, cr, n) == [pts |-> pts, cr |-> cr, n |-> n]

\* points[pid] = rec; coord_region[(x, y)] = region
PutNode(t, rec) ==
    Tables(DictPut(t.pts, rec), DictSet(t.cr, <<rec.x, rec.y>>, rec.region), t.n + 1)

\* faulty variant of the non-blue loop body: the blue occupancy is not consulted
PutAlways(t, rec) == PutNode(t, rec)

\* the body of a non-blue loop: skip where blue holds the coordinate
PutUnlessBlue(t, rec) ==
    IF HasKey(t.cr, <<rec.x, rec.y>>) /\ t.cr[<<rec.x, rec.y>>] = "blue"
    THEN t
    ELSE PutNode(t, rec)

RECURSIVE PutRangeBlue(_, _, _, _)
\* the blue loop body for recs[lo], ..., recs[hi], in this order; the test on the
\* counter (which never decreases) has the first half evaluated before the second
PutRangeBlue(t, recs, lo, hi) ==
    IF lo > hi THEN t
    ELSE IF lo = hi THEN PutNode(t, recs[lo])
    ELSE LET mid  == (lo + hi) \div 2
             left == PutRangeBlue(t, recs, lo, mid)
         IN  IF left.n >= t.n THEN PutRangeBlue(left, recs, mid + 1, hi) ELSE left

PutAllBlue(t, recs, i) == PutRangeBlue(t, recs, i, Len(recs))

RECURSIVE PutRangeUnlessBlue(_, _, _, _)
\* a non-blue loop body for recs[lo], ..., recs[hi], in this order
PutRangeUnlessBlue(t, recs, lo, hi) ==
    IF lo > hi THEN t
    ELSE IF lo = hi THEN PutUnlessBlue(t, recs[lo])
    ELSE LET mid  == (lo + hi) \div 2
             left == PutRangeUnlessBlue(t, recs, lo, mid)
         IN  IF left.n >= t.n THEN PutRangeUnlessBlue(left, recs, mid + 1, hi) ELSE left

PutAllUnlessBlue(t, recs, i) == PutRangeUnlessBlue(t, recs, i, Len(recs))

\* the blue cells of rows 1..max_row and columns c_lo..c_hi, row by row
BlueCells(c_lo, c_hi) ==
    Flatten([r \in 1..ws.max_row |->
                LET cs == SelectSeq(Range(c_lo, c_hi),
                                    LAMBDA c : color_id(ws, r, c) = blue_sig)
                IN  [k \in 1..Len(cs) |->
                        Pt(BlueId(r, cs[k]), F(cs[k] - 1), F(r), "blue", "cell", r, cs[k], 0)]],
            1)

purple_rows == <<13, 14, 15, 16, 22, 23, 24, 25, 226, 227, 228, 229, 235, 236, 237, 238>>

step_purple == 5
step_grey == 2
step_orange == 5
step_green == 5
step_v_purple == 5
step_v_grey == 2

grey_bands ==
    << [row_min |-> 17, row_max |-> 21, y |-> 19],
       [row_min |-> 230, row_max |-> 234, y |-> 232] >>

vertical_ranges == << <<28, 28 + VSpan>>, <<150, 150 + VSpan>> >>

\* Horizontal purple: the rows whose column E is purple, sampled from E to AIL
PurpleHCands ==
    Flatten([k \in 1..Len(purple_rows) |->
                LET r  == purple_rows[k]
                    xs == sample_positions_including_end(F(col_E - 1), F(col_AIL - 1), F(step_purple))
                IN  IF color_id(ws, r, col_E) # purple_sig THEN << >>
                    ELSE [i \in 1..Len(xs) |->
                            Pt(PurpleHId(r, i - 1), xs[i], F(r), "purple", "h", r, 0, 0)]],
            1)

\* max_x of a grey band: the widest merged range over the band's rows that starts left of AIS
BandMaxX(band) ==
    LET S == {mr[3] - 1 : mr \in {m \in ws.merged :
                                    /\ m[2] = band.row_min
                                    /\ m[4] = band.row_max
                                    /\ ~(m[1] >= col_AIS)}}
    IN  IF S = {} THEN -1 ELSE SetMax(S)

HasBand(band) ==
    \E m \in ws.merged : m[2] = band.row_min /\ m[4] = band.row_max /\ ~(m[1] >= col_AIS)

GreyHCands ==
    Flatten([k \in 1..Len(grey_bands) |->
                LET band == grey_bands[k]
                    xs   == sample_positions_including_end(F(4), F(BandMaxX(band)), F(step_grey))
                IN  IF ~HasBand(band) THEN << >>
                    ELSE [i \in 1..Len(xs) |->
                            Pt(GreyHId(band.y, i - 1), xs[i], F(band.y), "grey", "h", 0, 0, 0)]],
            1)

\* the nodes of one row's segments of a colour
SegRowCands(r, sig, tag, region, step) ==
    LET segs == contiguous_segments_for_color(ws, r, sig, 1, Min2(ws.max_column, col_max_use))
    IN  Flatten([s_idx \in 1..Len(segs) |->
                    LET xs == sample_positions_including_end(F(segs[s_idx][1] - 1),
                                                             F(segs[s_idx][2] - 1), F(step))
                    IN  [i \in 1..Len(xs) |->
                            Pt(SegId(tag, r, s_idx, i - 1), xs[i], F(r), region, "seg", r, 0, s_idx)]],
                1)

SegCands(sig, tag, region, step) ==
    Flatten([r \in 1..ws.max_row |-> SegRowCands(r, sig, tag, region, step)], 1)

\* the nodes add_vertical_points considers, column by column and range by range
VerticalCands(col1, col2, tag, region, step_v) ==
    Flatten([k \in 1..(col2 - col1 + 1) |->
                LET col == col1 + k - 1
                    x   == col - 1
                IN  Flatten([j \in 1..Len(vertical_ranges) |->
                                LET r1 == vertical_ranges[j][1]
                                    r2 == vertical_ranges[j][2]
                                    ys == sample_int_positions_including_end(r1, r2, step_v)
                                IN  [i \in 1..Len(ys) |->
                                        Pt(VerticalId(tag, x, r1, i - 1), F(x), F(ys[i]),
                                           region, "v", 0, col, 0)]],
                            1)],
            1)

add_vertical_points(t, col_from, col_to, tag, region, step_v) ==
    PutAllUnlessBlue(t, VerticalCands(col_from, col_to, tag, region, step_v), 1)

-----------------------------------------------------------------------------
(* main, block by block *)

Cur == Tables(points, coord_region, created)

Commit(t, next_pc) ==
    /\ points' = t.pts
    /\ coord_region' = t.cr
    /\ created' = t.n
    /\ pc' = next_pc
    /\ UNCHANGED <<ws, next_map, outv, smp>>

Idle == [st |-> "idle", x_start |-> 0, x_end |-> 0, step |-> 1, xs |-> << >>, ys |-> << >>]

Init ==
    /\ ws \in Layouts
    /\ pc = "anchors"
    /\ points = << >>
    /\ coord_region = << >>
    /\ next_map = {}
    /\ created = 0
    /\ inout = << >>
    /\ next_list = << >>
    /\ out_json = << >>
    /\ smp = Idle

\* the anchors, with a detected grey band asked for as well
AnchorsAndBand ==
    /\ pc = "anchors"
    /\ pc' = IF \/ \E sg \in {purple_sig, blue_sig, orange_sig, green_sig} : sg = None
                \/ ~HasBand(grey_bands[1])
             THEN "aborted" ELSE "blue_left"
    /\ UNCHANGED <<ws, points, coord_region, next_map, created, outv, smp>>

\* the anchors, with the green anchor left untested
AnchorsThree ==
    /\ pc = "anchors"
    /\ pc' = IF \E sg \in {purple_sig, blue_sig, orange_sig} : sg = None
             THEN "aborted" ELSE "blue_left"
    /\ UNCHANGED <<ws, points, coord_region, next_map, created, outv, smp>>

\* lines 169-178
Anchors ==
    /\ pc = "anchors"
    /\ pc' = IF \E sg \in {purple_sig, blue_sig, orange_sig, green_sig} : sg = None
             THEN "aborted" ELSE "blue_left"
    /\ UNCHANGED <<ws, points, coord_region, next_map, created, outv, smp>>

\* Blue cells left of AIS
GenBlueLeft ==
    /\ pc = "blue_left"
    /\ Commit(PutAllBlue(Cur, BlueCells(1, col_max_use), 1), "blue_ais")

\* Blue cells in AIS-AIV
GenBlueAIS ==
    /\ pc = "blue_ais"
    /\ Commit(PutAllBlue(Cur, BlueCells(col_AIS, col_AIV), 1), "purple_h")

GenPurpleH ==
    /\ pc = "purple_h"
    /\ Commit(PutAllUnlessBlue(Cur, PurpleHCands, 1), "grey_h")

GenGreyH ==
    /\ pc = "grey_h"
    /\ Commit(PutAllUnlessBlue(Cur, GreyHCands, 1), "orange")

GenOrange ==
    /\ pc = "orange"
    /\ Commit(PutAllUnlessBlue(Cur, SegCands(orange_sig, "OR", "orange", step_orange), 1), "green")

GenGreen ==
    /\ pc = "green"
    /\ Commit(PutAllUnlessBlue(Cur, SegCands(green_sig, "GN", "green", step_green), 1), "vertical")

\* lines 307-310
GenVertical ==
    /\ pc = "vertical"
    /\ LET t1 == add_vertical_points(Cur, col_AIS, col_AIT, "PUVUP", "purple", step_v_purple)
           t2 == add_vertical_points(t1, col_AIU, col_AIV, "PUVDN", "purple", step_v_purple)
           t3 == add_vertical_points(t2, col_AJB, col_AJE, "PUVDN", "purple", step_v_purple)
           t4 == add_vertical_points(t3, col_AIY, col_AIY, "GYV", "grey", step_v_grey)
       IN  Commit(t4, "conn_purple_rows")

-----------------------------------------------------------------------------
(* Indexes over the node table *)

SetMin(S) == CHOOSE m \in S : \A n \in S : m <= n

RECURSIVE SortInts(_)
\* sorted(S) for a set of numbers
SortInts(S) == IF S = {} THEN << >> ELSE <<SetMin(S)>> \o SortInts(S \ {SetMin(S)})

PairLeq(a, b) == a[1] < b[1] \/ (a[1] = b[1] /\ a[2] <= b[2])

RECURSIVE SortPairs(_)
\* sorted(lst, key=lambda t: t[0]) for pairs (key, position): Python's sort is stable
SortPairs(S) ==
    IF S = {} THEN << >>
    ELSE LET m == CHOOSE a \in S : \A b \in S : PairLeq(a, b)
         IN  <<m>> \o SortPairs(S \ {m})

\* d.get(k, {})
GetDict(d, k) == IF k \in DOMAIN d THEN d[k] ELSE << >>

\* d.get(k)
GetId(d, k) == IF k \in DOMAIN d THEN d[k] ELSE NoId

\* the positions in pts of the nodes of a region whose kind is one of kinds
Match(pts, region, kinds) ==
    {i \in 1..Len(pts) : pts[i].region = region /\ pts[i].kind \in kinds}

\* the record of a node id
Node(pid) == points[CHOOSE i \in 1..Len(points) : points[i].id = pid]

build_row_index(pts, region) ==
    LET M == Match(pts, region, {"h", "seg"})
    IN  [r \in {Round(pts[i].y) : i \in M} |->
            LET Mr == {i \in M : Round(pts[i].y) = r}
            IN  [x \in {pts[i].x : i \in Mr} |->
                    pts[SetMax({i \in Mr : pts[i].x = x})].id]]

build_rowseg_index(pts, region) ==
    LET M == Match(pts, region, {"seg"})
    IN  [key \in {<<Round(pts[i].y), pts[i].seg>> : i \in M} |->
            LET lst == SortPairs({<<pts[i].x, i>> :
                                    i \in {j \in M : <<Round(pts[j].y), pts[j].seg>> = key}})
            IN  [k \in 1..Len(lst) |-> pts[lst[k][2]].id]]

build_col_index(pts, region) ==
    LET M == Match(pts, region, {"v"})
    IN  [x \in {Round(pts[i].x) : i \in M} |->
            LET Mx == {i \in M : Round(pts[i].x) = x}
            IN  [y \in {Round(pts[i].y) : i \in Mx} |->
                    pts[SetMax({i \in Mx : Round(pts[i].y) = y})].id]]

\* sorted (x, pid) of a row, resp. sorted (y, pid) of a column
ordered_in_row(points_by_row, row) ==
    LET d  == GetDict(points_by_row, row)
        ks == SortInts(DOMAIN d)
    IN  [k \in 1..Len(ks) |-> <<ks[k], d[ks[k]]>>]

ordered_in_col(points_by_col, x) ==
    LET d  == GetDict(points_by_col, x)
        ks == SortInts(DOMAIN d)
    IN  [k \in 1..Len(ks) |-> <<ks[k], d[ks[k]]>>]

purple_row_index == build_row_index(points, "purple")
orange_rowseg == build_rowseg_index(points, "orange")
green_rowseg == build_rowseg_index(points, "green")
purple_col_index == build_col_index(points, "purple")

\* add_edge for every pair of a set of (a, b), where the order of the calls is immaterial
\* the edges of es alone
add_all_replacing(nm, es) == UNION {add_edge({}, e[1], e[2]) : e \in es}

add_all(nm, es) == nm \cup UNION {add_edge({}, e[1], e[2]) : e \in es}

Step(nm, next_pc) ==
    /\ next_map' = nm
    /\ pc' = next_pc
    /\ UNCHANGED <<ws, points, coord_region, created, outv, smp>>

-----------------------------------------------------------------------------
(* Horizontal chains and lane changes *)

\* faulty variant of a chain: each node also reaches the node after the next
ChainEdgesSkipping(ids, direction) ==
    IF Len(ids) < 2 THEN {}
    ELSE IF direction = "right"
         THEN UNION {{<<ids[i], ids[i + 1]>>} \cup
                       (IF i + 2 <= Len(ids) THEN {<<ids[i], ids[i + 2]>>} ELSE {})
                       : i \in 1..(Len(ids) - 1)}
         ELSE UNION {{<<ids[i], ids[i - 1]>>} \cup
                       (IF i - 2 >= 1 THEN {<<ids[i], ids[i - 2]>>} ELSE {})
                       : i \in 2..Len(ids)}

\* the calls of a chain over ids: each node to the next ("right") or to the previous
ChainEdges(ids, direction) ==
    IF Len(ids) < 2 THEN {}
    ELSE IF direction = "right"
         THEN {<<ids[i], ids[i + 1]>> : i \in 1..(Len(ids) - 1)}
         ELSE {<<ids[i], ids[i - 1]>> : i \in 2..Len(ids)}

connect_purple_rows(nm, rows, direction) ==
    add_all(nm, UNION {LET ordered == ordered_in_row(purple_row_index, r)
                       IN  ChainEdges([k \in 1..Len(ordered) |-> ordered[k][2]], direction)
                       : r \in rows})

\* lines 333-336
ConnectPurpleRows ==
    /\ pc = "conn_purple_rows"
    /\ LET n1 == connect_purple_rows(next_map, (13..16) \cup (22..23), "right")
           n2 == connect_purple_rows(n1, 24..25, "left")
           n3 == connect_purple_rows(n2, 226..227, "right")
           n4 == connect_purple_rows(n3, (228..229) \cup (235..238), "left")
       IN  Step(n4, "lane_change_purple")

\* faulty variant of lane_change: the target row is read from r_from
lane_change_same_row(nm, row_x, r_from, r_to, allow) ==
    LET a == GetDict(row_x, r_from)
    IN  IF ~allow \/ DOMAIN a = {} THEN nm
        ELSE add_all(nm, {<<a[x], a[x]>> : x \in DOMAIN a})

\* lane_change and lane_change_og: same x in rows r_from and r_to of one index
lane_change(nm, row_x, r_from, r_to, allow) ==
    LET a == GetDict(row_x, r_from)
        b == GetDict(row_x, r_to)
    IN  IF ~allow \/ DOMAIN a = {} \/ DOMAIN b = {} THEN nm
        ELSE add_all(nm, {<<a[x], b[x]>> : x \in {k \in DOMAIN a : GetId(b, k) # NoId}})

\* the calls of lines 351-381, as (r_from, r_to)
PurpleLanePairs ==
    UNION {{<<r, r + 1>>, <<r + 1, r>>} : r \in 13..15}
    \cup {<<22, 23>>, <<23, 22>>, <<23, 24>>, <<24, 23>>, <<24, 25>>, <<25, 24>>}
    \cup {<<226, 227>>, <<227, 226>>, <<228, 229>>, <<229, 228>>, <<227, 228>>, <<228, 227>>}
    \cup UNION {{<<r, r + 1>>, <<r + 1, r>>} : r \in 235..237}

LaneChangePurple ==
    /\ pc = "lane_change_purple"
    /\ Step(UNION {lane_change(next_map, purple_row_index, pr[1], pr[2], TRUE) : pr \in PurpleLanePairs},
            "conn_segments")

\* faulty variant of og_dir: the rows from 126 on are not reversed
og_dir_right(row) == "right"

og_dir(row) ==
    IF row = 125 THEN "right"
    ELSE IF row >= 126 THEN "left"
    ELSE "right"

connect_segments(nm, rowseg) ==
    add_all(nm, UNION {ChainEdges(rowseg[key], og_dir(key[1])) : key \in DOMAIN rowseg})

\* lines 403-404
ConnectSegments ==
    /\ pc = "conn_segments"
    /\ Step(connect_segments(connect_segments(next_map, orange_rowseg), green_rowseg),
            "lane_change_og")

build_row_x_index(pts, region) ==
    LET M == Match(pts, region, {"seg"})
    IN  [r \in {Round(pts[i].y) : i \in M} |->
            LET Mr == {i \in M : Round(pts[i].y) = r}
            IN  [x \in {pts[i].x : i \in Mr} |->
                    pts[SetMax({i \in Mr : pts[i].x = x})].id]]

orange_row_x == build_row_x_index(points, "orange")
green_row_x == build_row_x_index(points, "green")

\* every pair of rows allowed
og_allow_always(r, r_to) == TRUE

\* row 125 cannot reach 126, vice versa
og_allow(r, r_to) == ~((r = 125 /\ r_to = 126) \/ (r = 126 /\ r_to = 125))

\* lines 432-449
LaneChangeOG ==
    /\ pc = "lane_change_og"
    /\ LET ox == orange_row_x
           gx == green_row_x
           rows == DOMAIN ox \cup DOMAIN gx
           calls == {<<r, r_to>> \in rows \X rows : r_to \in {r - 1, r + 1}}
       IN  Step(next_map
                \cup UNION {lane_change({}, ox, c[1], c[2], og_allow(c[1], c[2])) : c \in calls}
                \cup UNION {lane_change({}, gx, c[1], c[2], og_allow(c[1], c[2])) : c \in calls},
                "blue_horizontal")

-----------------------------------------------------------------------------
(* BLUE connectivity *)

x_AIP == col_AIP - 1
x_AIS == col_AIS - 1
x_AIT == col_AIT - 1
x_AIU == col_AIU - 1
x_AIV == col_AIV - 1
x_AJB == col_AJB - 1
x_AJE == col_AJE - 1
x_E == col_E - 1
x_AIL == col_AIL - 1

\* coord_index.get((x, y), []): the ids at a coordinate, in the order of the node table
coord_index(x, y) ==
    LET at == SelectSeq(points, LAMBDA p : p.x = x /\ p.y = y)
    IN  [k \in 1..Len(at) |-> at[k].id]

get_pid_at(x, y, prefer_region, exclude_region) ==
    LET all   == coord_index(x, y)
        cands == IF exclude_region # None
                 THEN SelectSeq(all, LAMBDA pid : Node(pid).region # exclude_region)
                 ELSE all
        pref  == SelectSeq(cands, LAMBDA pid : Node(pid).region = prefer_region)
    IN  IF Len(cands) = 0 THEN NoId
        ELSE IF prefer_region # None /\ Len(pref) > 0 THEN pref[1]
        ELSE cands[1]

right_purple_rows == (13..16) \cup (22..23) \cup (226..227)
left_purple_rows == (24..25) \cup (228..229) \cup (235..238)

row_lr_dir(r) ==
    IF r \in right_purple_rows THEN "right"
    ELSE IF r \in left_purple_rows THEN "left"
    ELSE og_dir(r)

col_max_use_blue == Min2(ws.max_column, col_AIV)

\* the BLUE segments of a row
blue_segs(r) == contiguous_segments_for_color(ws, r, blue_sig, 1, col_max_use_blue)

\* the blue ids of the cells c1..c2 of row r, sorted by x
BlueRunIds(r, c1, c2) ==
    LET found == [k \in 1..(c2 - c1 + 1) |-> get_pid_at(F(c1 + k - 1 - 1), F(r), "blue", None)]
        ids   == SelectSeq(found, LAMBDA pid : pid # NoId /\ Node(pid).region = "blue")
        srt   == SortPairs({<<Node(ids[k]).x, k>> : k \in 1..Len(ids)})
    IN  [k \in 1..Len(srt) |-> ids[srt[k][2]]]

\* lines 494-533 for one segment: internal links, then the outside neighbours
BlueSegEdges(r, c1, c2) ==
    LET d             == row_lr_dir(r)
        ids_sorted    == BlueRunIds(r, c1, c2)
        outside_left  == get_pid_at(F((c1 - 1) - 1), F(r), None, "blue")
        outside_right == get_pid_at(F((c2 + 1) - 1), F(r), None, "blue")
        okl == outside_left # NoId /\ Node(outside_left).region # "blue"
        okr == outside_right # NoId /\ Node(outside_right).region # "blue"
    IN  IF Len(ids_sorted) < 2 THEN {}
        ELSE ChainEdges(ids_sorted, d)
             \cup (IF d = "right"
                   THEN (IF okl THEN {<<outside_left, ids_sorted[1]>>} ELSE {})
                        \cup (IF okr THEN {<<Last(ids_sorted), outside_right>>} ELSE {})
                   ELSE (IF okr THEN {<<outside_right, Last(ids_sorted)>>} ELSE {})
                        \cup (IF okl THEN {<<ids_sorted[1], outside_left>>} ELSE {}))

\* 1) Horizontal links inside each BLUE segment + connect to outside point if exists
BlueHorizontal ==
    /\ pc = "blue_horizontal"
    /\ Step(add_all(next_map,
                    UNION {LET segs == blue_segs(r)
                           IN  UNION {BlueSegEdges(r, segs[k][1], segs[k][2]) : k \in 1..Len(segs)}
                           : r \in 1..ws.max_row}),
            "blue_aip_ais")

\* 'up' for the first three columns of a segment
blue_vertical_dir_three(row, col) ==
    LET segs == blue_segs(row)
        hit  == {k \in 1..Len(segs) : segs[k][1] <= col /\ col <= segs[k][2]}
    IN  IF hit = {} THEN None
        ELSE IF col - segs[SetMin(hit)][1] <= 2 THEN "up" ELSE "down"

blue_vertical_dir(row, col) ==
    LET segs == blue_segs(row)
        hit  == {k \in 1..Len(segs) : segs[k][1] <= col /\ col <= segs[k][2]}
    IN  IF hit = {} THEN None
        ELSE IF col - segs[SetMin(hit)][1] <= 1 THEN "up" ELSE "down"

\* blue_points_by_x[x]: (y, pid, dir) of the blue nodes of column x, in table order
blue_points_by_x(x) ==
    LET bl == SelectSeq(points, LAMBDA p : /\ p.region = "blue"
                                           /\ Round(p.x) = x
                                           /\ blue_vertical_dir(p.row, p.col) # None)
    IN  [k \in 1..Len(bl) |-> <<Round(bl[k].y), bl[k].id, blue_vertical_dir(bl[k].row, bl[k].col)>>]

blue_xs == {Round(points[i].x) : i \in {j \in 1..Len(points) :
                /\ points[j].region = "blue"
                /\ blue_vertical_dir(points[j].row, points[j].col) # None}}

\* {y: pid for (y, pid, _) in lst}: a later entry replaces an earlier one
YMap(lst) ==
    [y \in {lst[k][1] : k \in 1..Len(lst)} |->
        lst[SetMax({k \in 1..Len(lst) : lst[k][1] = y})][2]]

\* Explicitly connect BLUE points between columns AIP and AIS (same y)
BlueAIPAIS ==
    /\ pc = "blue_aip_ais"
    /\ LET aip_map == YMap(blue_points_by_x(x_AIP))
           ais_map == YMap(blue_points_by_x(x_AIS))
       IN  Step(IF x_AIP \in blue_xs /\ x_AIS \in blue_xs
                THEN add_all(next_map,
                             {IF row_lr_dir(y) = "right"
                              THEN <<aip_map[y], ais_map[y]>>
                              ELSE <<ais_map[y], aip_map[y]>>
                              : y \in DOMAIN aip_map \cap DOMAIN ais_map})
                ELSE next_map,
                "blue_vertical")

\* the (y, pid) of one direction in a column, sorted by y
DirSorted(lst, d) ==
    LET srt == SortPairs({<<lst[k][1], k>> : k \in {j \in 1..Len(lst) : lst[j][3] = d}})
    IN  [k \in 1..Len(srt) |-> lst[srt[k][2]][2]]

\* lines 598-613: UP columns link to the next smaller y, DOWN columns to the next larger y
BlueVertical ==
    /\ pc = "blue_vertical"
    /\ Step(add_all(next_map,
                    UNION {LET lst == blue_points_by_x(x)
                           IN  ChainEdges(DirSorted(lst, "up"), "left")
                               \cup ChainEdges(DirSorted(lst, "down"), "right")
                           : x \in blue_xs}),
            "purple_vertical")

\* the (y, pid) of a purple column within one vertical range
InRange(x, r1, r2) ==
    SelectSeq(ordered_in_col(purple_col_index, x), LAMBDA t : r1 <= t[1] /\ t[1] <= r2)

\* the chains of lines 616-629 with the test of the distance left out
PurpleVerticalAnyGap ==
    /\ pc = "purple_vertical"
    /\ Step(add_all(next_map,
                    UNION {LET r1 == vertical_ranges[j][1]
                               r2 == vertical_ranges[j][2]
                           IN  UNION {LET ordered == InRange(x, r1, r2)
                                      IN  {<<ordered[i][2], ordered[i - 1][2]>> :
                                             i \in 2..Len(ordered)}
                                      : x \in x_AIS..x_AIT}
                               \cup
                               UNION {LET ordered == InRange(x, r1, r2)
                                      IN  {<<ordered[i][2], ordered[i + 1][2]>> :
                                             i \in 1..(Len(ordered) - 1)}
                                      : x \in (x_AIU..x_AIV) \cup (x_AJB..x_AJE)}
                           : j \in 1..Len(vertical_ranges)}),
            "blue_vertical_ais")

\* lines 616-629
PurpleVertical ==
    /\ pc = "purple_vertical"
    /\ Step(add_all(next_map,
                    UNION {LET r1 == vertical_ranges[j][1]
                               r2 == vertical_ranges[j][2]
                           IN  UNION {LET ordered == InRange(x, r1, r2)
                                      IN  {<<ordered[i][2], ordered[i - 1][2]>> :
                                             i \in {k \in 2..Len(ordered) :
                                                     F(ordered[k][1] - ordered[k - 1][1])
                                                        <= F(step_v_purple) + EPS}}
                                      : x \in x_AIS..x_AIT}
                               \cup
                               UNION {LET ordered == InRange(x, r1, r2)
                                      IN  {<<ordered[i][2], ordered[i + 1][2]>> :
                                             i \in {k \in 1..(Len(ordered) - 1) :
                                                     F(ordered[k + 1][1] - ordered[k][1])
                                                        <= F(step_v_purple) + EPS}}
                                      : x \in (x_AIU..x_AIV) \cup (x_AJB..x_AJE)}
                           : j \in 1..Len(vertical_ranges)}),
            "blue_vertical_ais")

\* blue_index: (x, y) -> pid of the blue cells
blue_index ==
    LET M == Match(points, "blue", {"cell"})
    IN  [key \in {<<Round(points[i].x), Round(points[i].y)>> : i \in M} |->
            points[SetMax({i \in M : <<Round(points[i].x), Round(points[i].y)>> = key})].id]

MAX_DY == 5

\* the first d in 1..MAX_DY + 1
FirstHitBeyond(idx, x, y, sign) ==
    LET ds == {d \in 1..(MAX_DY + 1) : <<x, y + sign * d>> \in DOMAIN idx}
    IN  IF ds = {} THEN 0 ELSE SetMin(ds)

\* the first d in 1..MAX_DY at which index idx has an entry at (x, y + sign * d), or 0
FirstHit(idx, x, y, sign) ==
    LET ds == {d \in 1..MAX_DY : <<x, y + sign * d>> \in DOMAIN idx}
    IN  IF ds = {} THEN 0 ELSE SetMin(ds)

\* lines 655-675 for the columns xs, upwards (sign -1) or downwards (sign 1)
BlueColumnLinks(xs, sign) ==
    LET bi == blue_index
    IN  {<<bi[key], bi[<<key[1], key[2] + sign * FirstHit(bi, key[1], key[2], sign)>>]>> :
            key \in {k \in DOMAIN bi : k[1] \in xs /\ FirstHit(bi, k[1], k[2], sign) # 0}}

BlueVerticalAIS ==
    /\ pc = "blue_vertical_ais"
    /\ Step(add_all(add_all(next_map, BlueColumnLinks(x_AIS..x_AIT, -1)),
                    BlueColumnLinks(x_AIU..x_AIV, 1)),
            "blue_purple_adj")

-----------------------------------------------------------------------------
(* Ids as strings: the characters of the f-strings, for Python's < on str *)

RECURSIVE Digits(_)
\* str(n) for n >= 0, as character codes
Digits(n) == IF n < 10 THEN <<48 + n>> ELSE Digits(n \div 10) \o <<48 + (n % 10)>>

\* f"{n:0{width}d}"
Padded(n, width) ==
    LET ds == Digits(n)
    IN  [i \in 1..(Max2(width, Len(ds)) - Len(ds)) |-> 48] \o ds

TagChars(tag) ==
    CASE tag = "BL"    -> <<66, 76>>
      [] tag = "PUH"   -> <<80, 85, 72>>
      [] tag = "GYH"   -> <<71, 89, 72>>
      [] tag = "OR"    -> <<79, 82>>
      [] tag = "GN"    -> <<71, 78>>
      [] tag = "PUVUP" -> <<80, 85, 86, 85, 80>>
      [] tag = "PUVDN" -> <<80, 85, 86, 68, 78>>
      [] tag = "GYV"   -> <<71, 89, 86>>

\* the id as the f-string writes it
IdChars(id) ==
    LET tag == id[1]
    IN  CASE tag = "BL" ->
               TagChars(tag) \o <<95, 82>> \o Padded(id[2], 3) \o <<95, 67>> \o Padded(id[3], 4)
          [] tag = "PUH" ->
               TagChars(tag) \o <<95, 82>> \o Padded(id[2], 3) \o <<95>> \o Padded(id[3], 4)
          [] tag = "GYH" ->
               TagChars(tag) \o <<95, 89>> \o Digits(id[2]) \o <<95>> \o Padded(id[3], 4)
          [] tag \in {"OR", "GN"} ->
               TagChars(tag) \o <<95, 82>> \o Padded(id[2], 3) \o <<95, 83>> \o Padded(id[3], 2)
                             \o <<95>> \o Padded(id[4], 4)
          [] OTHER ->
               TagChars(tag) \o <<95, 88>> \o Padded(id[2], 4) \o <<95, 82>> \o Padded(id[3], 3)
                             \o <<95>> \o Padded(id[4], 3)

\* a < b for sequences of numbers, as Python compares strings and tuples
SeqLess(a, b) ==
    \E k \in 1..(Min2(Len(a), Len(b)) + 1) :
        /\ \A j \in 1..(k - 1) : a[j] = b[j]
        /\ \/ (k > Len(a) /\ k <= Len(b))
           \/ (k <= Len(a) /\ k <= Len(b) /\ a[k] < b[k])

IdLess(a, b) == SeqLess(IdChars(a), IdChars(b))

RECURSIVE SortIdsByNumbers(_)
\* the ids ordered by their first number, then as strings
SortIdsByNumbers(S) ==
    IF S = {} THEN << >>
    ELSE LET m == CHOOSE a \in S :
                     \A b \in S \ {a} :
                         a[2] < b[2] \/ (a[2] = b[2] /\ IdLess(a, b))
         IN  <<m>> \o SortIdsByNumbers(S \ {m})

RECURSIVE SortIds(_)
\* sorted(S) for a set of ids
SortIds(S) ==
    IF S = {} THEN << >>
    ELSE LET m == CHOOSE a \in S : \A b \in S \ {a} : IdLess(a, b)
         IN  <<m>> \o SortIds(S \ {m})

-----------------------------------------------------------------------------
(* BLUE <-> PURPLE vertical adjacency in AIS-AIV *)

\* the orders in which a set of numbers may be iterated: the program does not
\* control it; tried are the ascending and the descending order and their rotations
Rotate(sq, k) ==
    [i \in 1..Len(sq) |-> sq[((i - 1 + k) % Len(sq)) + 1]]

Reverse(sq) == [i \in 1..Len(sq) |-> sq[Len(sq) + 1 - i]]

\* the order of a set under one of the schemes tried
OrderOf(S, rev, k) ==
    LET asc == SortInts(S)
        sq  == IF rev THEN Reverse(asc) ELSE asc
    IN  IF Len(sq) = 0 THEN sq ELSE Rotate(sq, k)

\* (d, abs(y_from), pid_b_from) < (d2, abs(y2), pid2)
CandLess(a, b) ==
    \/ a[1] < b[1]
    \/ a[1] = b[1] /\ a[2] < b[2]
    \/ a[1] = b[1] /\ a[2] = b[2] /\ IdLess(a[3], b[3])

\* faulty variant of the candidate test: the greater candidate wins
ReplacesFarther(cand, cur) == CandLess(cur[1], cand)

\* faulty variant of the candidate test: the candidate visited last wins
ReplacesAlways(cand, cur) == TRUE

\* whether a new candidate replaces the current entry of best_blue_to_purple
Replaces(cand, cur) == CandLess(cand, cur[1])

\* the blue half of add_adj_bp_edge_up (sign -1) and add_adj_bp_edge_down (sign 1):
\* best_blue_to_purple after the call for column xi and row y_from
BestStep(best, xi, y_from, sign) ==
    LET pcol == GetDict(purple_col_index, xi)
        ds   == {d \in 1..MAX_DY :
                    /\ (y_from + sign * d) \in DOMAIN pcol
                    /\ \A e \in 1..d : sign = 1 \/ y_from - e >= 0}
        d0   == SetMin(ds)
        pid_b_from == GetId(blue_index, <<xi, y_from>>)
        pid_p_to   == pcol[y_from + sign * d0]
        cand == <<d0, Abs(y_from), pid_b_from>>
    IN  IF pid_b_from = NoId \/ ds = {} THEN best
        ELSE IF pid_p_to \notin DOMAIN best \/ Replaces(cand, best[pid_p_to])
             THEN DictSet(best, pid_p_to, <<cand, pid_b_from>>)
             ELSE best

RECURSIVE BestFold(_, _, _, _, _, _)
\* the calls for the rows order[lo], ..., order[hi] of column xi
BestFold(best, xi, order, sign, lo, hi) ==
    IF lo > hi THEN best
    ELSE IF lo = hi THEN BestStep(best, xi, order[lo], sign)
    ELSE LET mid  == (lo + hi) \div 2
             left == BestFold(best, xi, order, sign, lo, mid)
         IN  IF DOMAIN best \subseteq DOMAIN left
             THEN BestFold(left, xi, order, sign, mid + 1, hi)
             ELSE left

\* all y present in either BLUE or PURPLE on column x
AdjRows(x) ==
    DOMAIN GetDict(purple_col_index, x) \cup {k[2] : k \in {j \in DOMAIN blue_index : j[1] = x}}

\* the purple half of the two functions: purple(y_from) -> the nearest blue in 1..MAX_DY
PurpleToBlue(x, sign) ==
    LET pcol == GetDict(purple_col_index, x)
        bi   == blue_index
    IN  {<<pcol[y], bi[<<x, y + sign * FirstHit(bi, x, y, sign)>>]>> :
            y \in {k \in DOMAIN pcol :
                     /\ FirstHit(bi, x, k, sign) # 0
                     /\ sign = 1 \/ k - FirstHit(bi, x, k, sign) >= 0}}

\* best_blue_to_purple after the loops of lines 739-750, the set of column x being
\* iterated in the order ord[x]
BestAfter(ord) ==
    LET b1 == BestFold(<< >>, x_AIS, ord[x_AIS], -1, 1, Len(ord[x_AIS]))
        b2 == BestFold(b1, x_AIT, ord[x_AIT], -1, 1, Len(ord[x_AIT]))
        b3 == BestFold(b2, x_AIU, ord[x_AIU], 1, 1, Len(ord[x_AIU]))
    IN  BestFold(b3, x_AIV, ord[x_AIV], 1, 1, Len(ord[x_AIV]))

\* next_map after lines 739-754
AdjResult(nm, ord) ==
    LET best == BestAfter(ord)
        n1   == add_all(nm, UNION {PurpleToBlue(x, -1) : x \in x_AIS..x_AIT})
        n2   == add_all(n1, UNION {PurpleToBlue(x, 1) : x \in x_AIU..x_AIV})
    IN  add_all(n2, {<<best[pid_pu][2], pid_pu>> : pid_pu \in DOMAIN best})

AscOrder == [x \in x_AIS..x_AIV |-> SortInts(AdjRows(x))]

BluePurpleAdj ==
    /\ pc = "blue_purple_adj"
    /\ \E rev \in BOOLEAN, k \in 0..MaxRot :
          Step(AdjResult(next_map, [x \in x_AIS..x_AIV |-> OrderOf(AdjRows(x), rev, k)]),
               "lane_change_cols")

\* faulty variant of lane_change_cols: pid2 is stored without the test "if pid2"
lane_change_cols_unguarded(nm, x_from, x_to, allow) ==
    LET a == GetDict(purple_col_index, x_from)
        b == GetDict(purple_col_index, x_to)
    IN  IF ~allow THEN nm
        ELSE nm \cup {<<a[y], GetId(b, y)>> : y \in DOMAIN a}

\* Vertical lane-change between adjacent columns
lane_change_cols(nm, x_from, x_to, allow) ==
    LET a == GetDict(purple_col_index, x_from)
        b == GetDict(purple_col_index, x_to)
    IN  IF ~allow THEN nm
        ELSE add_all(nm, {<<a[y], b[y]>> : y \in {k \in DOMAIN a : GetId(b, k) # NoId}})

\* faulty variant of the calls of lines 767-790: AIT cannot go left
ColLanePairsOneWay ==
    {<<x_AIS, x_AIS + 1>>}
    \cup UNION {IF x = x_AIU THEN {<<x, x + 1>>} ELSE {<<x, x - 1>>, <<x, x + 1>>}
                : x \in x_AIU..x_AIV}
    \cup {<<x_AIT, x_AIU>>, <<x_AIU, x_AIT>>}
    \cup UNION {IF x = x_AJB THEN {<<x, x + 1>>}
                ELSE IF x = x_AJE THEN {<<x, x - 1>>}
                ELSE {<<x, x - 1>>, <<x, x + 1>>}
                : x \in x_AJB..x_AJE}

\* the calls of lines 767-790, as (x_from, x_to)
ColLanePairs ==
    {<<x_AIS, x_AIS + 1>>, <<x_AIT, x_AIT - 1>>}
    \cup UNION {IF x = x_AIU THEN {<<x, x + 1>>} ELSE {<<x, x - 1>>, <<x, x + 1>>}
                : x \in x_AIU..x_AIV}
    \cup {<<x_AIT, x_AIU>>, <<x_AIU, x_AIT>>}
    \cup UNION {IF x = x_AJB THEN {<<x, x + 1>>}
                ELSE IF x = x_AJE THEN {<<x, x - 1>>}
                ELSE {<<x, x - 1>>, <<x, x + 1>>}
                : x \in x_AJB..x_AJE}

LaneChangeCols ==
    /\ pc = "lane_change_cols"
    /\ Step(UNION ({next_map} \cup {lane_change_cols(next_map, c[1], c[2], TRUE) : c \in ColLanePairs}),
            "grey_v_seam")

-----------------------------------------------------------------------------
(* Right-side column AIV-AJB linking *)

\* (pid, x, y) of the nodes that pass a test, in table order
Cands(Test(_)) ==
    LET sel == SelectSeq(points, Test)
    IN  [k \in 1..Len(sel) |-> <<sel[k].id, sel[k].x, sel[k].y>>]

aiv_candidates ==
    Cands(LAMBDA p : /\ Round(p.x) = x_AIV
                     /\ p.region \in {"purple", "blue"}
                     /\ ~(p.region = "blue" /\ 102 <= Round(p.y) /\ Round(p.y) <= 149))

ajb_candidates ==
    Cands(LAMBDA p : Round(p.x) = x_AJB /\ p.region = "purple")

grey_v == Cands(LAMBDA p : p.region = "grey" /\ p.kind = "v")

grey_h ==
    Cands(LAMBDA p : /\ p.region = "grey"
                     /\ p.kind = "h"
                     /\ \/ (17 <= Round(p.y) /\ Round(p.y) <= 21)
                        \/ (230 <= Round(p.y) /\ Round(p.y) <= 234))

all_grey == grey_v \o grey_h

\* one step of the scan for the best distance: st is (best, best_ids), best -1 for None
TieStep(st, pid, d, eps) ==
    IF st[1] = -1 \/ d < st[1] - eps THEN <<d, <<pid>>>>
    ELSE IF Abs(d - st[1]) <= eps THEN <<st[1], Append(st[2], pid)>>
    ELSE st

RECURSIVE TieScan(_, _, _, _, _)
\* the scan over ds[lo], ..., ds[hi], each a (pid, distance)
TieScan(st, ds, eps, lo, hi) ==
    IF lo > hi THEN st
    ELSE IF lo = hi THEN TieStep(st, ds[lo][1], ds[lo][2], eps)
    ELSE LET mid  == (lo + hi) \div 2
             left == TieScan(st, ds, eps, lo, mid)
         IN  IF Len(left[2]) >= 0 THEN TieScan(left, ds, eps, mid + 1, hi) ELSE left

\* the ids without repeats, the first occurrence kept
Dedupe(ids) ==
    SelectSeq([k \in 1..Len(ids) |-> IF \E j \in 1..(k - 1) : ids[j] = ids[k] THEN NoId ELSE ids[k]],
              LAMBDA pid : pid # NoId)

\* out, with no cap
Uncapped(ids, cap) == ids

\* out[:cap]
Capped(ids, cap) == SubSeq(ids, 1, Min2(cap, Len(ids)))

\* best_ids of a scan over (pid, distance), without repeats and capped
NearestOf(ds, eps, cap) ==
    IF Len(ds) = 0 THEN << >>
    ELSE Capped(Dedupe(TieScan(<<-1, << >>>>, ds, eps, 1, Len(ds))[2]), cap)

\* Helper: nearest by y (return 1 or 2 if tie), capped
nearest_by_y_ids(cands, y, cap) ==
    LET srt      == SortPairs({<<cands[k][3], k>> : k \in 1..Len(cands)})
        c_sorted == [k \in 1..Len(srt) |-> cands[srt[k][2]]]
        \* bisect_left(ys, y), as a 0-based position
        i        == Cardinality({k \in 1..Len(c_sorted) : c_sorted[k][3] < y})
        js       == SelectSeq(<<i - 1, i>>, LAMBDA j : 0 <= j /\ j < Len(c_sorted))
        neigh    == [k \in 1..Len(js) |-> c_sorted[js[k] + 1]]
    IN  NearestOf([k \in 1..Len(neigh) |-> <<neigh[k][1], Abs(neigh[k][3] - y)>>], EPS, cap)

\* Helper: nearest by x (return 1 or 2 if tie), capped
nearest_by_x_ids(cands, x, cap) ==
    NearestOf([k \in 1..Len(cands) |-> <<cands[k][1], Abs(cands[k][2] - x)>>], EPS, cap)

\* the edges from a to each of ids only
BothWaysForward(a, ids) == {<<a, ids[k]>> : k \in 1..Len(ids)}

\* the edges of a bidirectional link of a with each of ids
BothWays(a, ids) == UNION {{<<a, ids[k]>>, <<ids[k], a>>} : k \in 1..Len(ids)}

\* Step 1: VERTICAL grey strip links to AIV/AJB by nearest Y (bidirectional)
GreyVSeam ==
    /\ pc = "grey_v_seam"
    /\ LET gv == grey_v
           av == aiv_candidates
           aj == ajb_candidates
       IN  Step(add_all(next_map,
                        UNION {BothWays(gv[k][1], nearest_by_y_ids(av, gv[k][3], 2))
                               \cup BothWays(gv[k][1], nearest_by_y_ids(aj, gv[k][3], 2))
                               : k \in 1..Len(gv)}),
                "grey_h_rows")

\* purple or blue nodes of a boundary row
pb_row(y) == Cands(LAMBDA p : p.region \in {"purple", "blue"} /\ Round(p.y) = y)

\* Horizontal grey bands link ONLY to boundary rows by nearest X (bidirectional)
GreyHRows ==
    /\ pc = "grey_h_rows"
    /\ LET gh == grey_h
           r16 == pb_row(16)
           r22 == pb_row(22)
           r229 == pb_row(229)
           r235 == pb_row(235)
       IN  Step(add_all(next_map,
                        UNION {IF 17 <= Round(gh[k][3]) /\ Round(gh[k][3]) <= 21
                               THEN BothWays(gh[k][1], nearest_by_x_ids(r16, gh[k][2], 2))
                                    \cup BothWays(gh[k][1], nearest_by_x_ids(r22, gh[k][2], 2))
                               ELSE BothWays(gh[k][1], nearest_by_x_ids(r229, gh[k][2], 2))
                                    \cup BothWays(gh[k][1], nearest_by_x_ids(r235, gh[k][2], 2))
                               : k \in 1..Len(gh)}),
                "force_row22")

grey_band_17_21 ==
    SelectSeq(grey_h, LAMBDA t : 17 <= Round(t[3]) /\ Round(t[3]) <= 21)

grey_band_230_234 ==
    SelectSeq(grey_h, LAMBDA t : 230 <= Round(t[3]) /\ Round(t[3]) <= 234)

nearest_grey_by_x_in_band(bx, band, cap) ==
    NearestOf([k \in 1..Len(band) |-> <<band[k][1], Abs(band[k][2] - bx)>>], EPS, cap)

\* Force row22/row229 blue (E..AIL) to link to grey_h above/below by nearest X
ForceRow22 ==
    /\ pc = "force_row22"
    /\ LET bl == Cands(LAMBDA p : /\ p.region = "blue"
                                  /\ p.kind = "cell"
                                  /\ ~(Round(p.x) < x_E \/ Round(p.x) > x_AIL)
                                  /\ Round(p.y) \in {22, 229})
           b17 == grey_band_17_21
           b230 == grey_band_230_234
       IN  Step(add_all(next_map,
                        UNION {BothWays(bl[k][1],
                                        nearest_grey_by_x_in_band(bl[k][2],
                                            IF Round(bl[k][3]) = 22 THEN b17 ELSE b230, 2))
                               : k \in 1..Len(bl)}),
                "fallback")

\* the test left out: no node counts as having a grey neighbour
has_any_grey_neighbor_never(nm, pid) == FALSE

has_any_grey_neighbor(nm, pid) ==
    \E e \in nm : e[1] = pid /\ Node(e[2]).region = "grey"

\* the body of the fallback loop without the test of the region: every node of
\* column AIV is linked to the nearest grey node on its right
FallbackStepAnyRegion(nm, p, greys) ==
    LET candidates == SelectSeq(greys, LAMBDA t : t[2] > p.x + EPS)
        ds == [k \in 1..Len(candidates) |->
                 <<candidates[k][1],
                   (candidates[k][2] - p.x) * (candidates[k][2] - p.x)
                     + (candidates[k][3] - p.y) * (candidates[k][3] - p.y)>>]
        uniq == NearestOf(ds, EPS * Cell, 2)
    IN  IF Round(p.x) # x_AIV THEN nm
        ELSE IF has_any_grey_neighbor(nm, p.id) THEN nm
        ELSE IF 102 <= Round(p.y) /\ Round(p.y) <= 149 THEN nm
        ELSE IF Len(candidates) = 0 THEN nm
        ELSE add_all(nm, BothWays(p.id, uniq))

\* the body of the fallback loop for one node record p
FallbackStep(nm, p, greys) ==
    LET candidates == SelectSeq(greys, LAMBDA t : t[2] > p.x + EPS)
        ds == [k \in 1..Len(candidates) |->
                 <<candidates[k][1],
                   (candidates[k][2] - p.x) * (candidates[k][2] - p.x)
                     + (candidates[k][3] - p.y) * (candidates[k][3] - p.y)>>]
        \* 1e-9 against a squared distance: EPS * Cell in squared units
        uniq == NearestOf(ds, EPS * Cell, 2)
    IN  IF p.region # "blue" \/ Round(p.x) # x_AIV THEN nm
        ELSE IF has_any_grey_neighbor(nm, p.id) THEN nm
        ELSE IF 102 <= Round(p.y) /\ Round(p.y) <= 149 THEN nm
        ELSE IF Len(candidates) = 0 THEN nm
        ELSE add_all(nm, BothWays(p.id, uniq))

RECURSIVE FallbackRange(_, _, _, _)
\* the fallback loop over points[lo], ..., points[hi]
FallbackRange(nm, greys, lo, hi) ==
    IF lo > hi THEN nm
    ELSE IF lo = hi THEN FallbackStep(nm, points[lo], greys)
    ELSE LET mid  == (lo + hi) \div 2
             left == FallbackRange(nm, greys, lo, mid)
         IN  IF nm \subseteq left THEN FallbackRange(left, greys, mid + 1, hi) ELSE left

\* Step 2: AIV BLUE points with NO grey neighbor -> nearest right grey(s)
Fallback ==
    /\ pc = "fallback"
    /\ Step(FallbackRange(next_map, all_grey, 1, Len(points)), "inout")

-----------------------------------------------------------------------------
(* In/Out flag, next lists, export *)

inout_rows_purple == {13, 14, 15, 16, 235, 236, 237, 238}
inout_rows_orange == {31, 54, 57, 80, 83, 106, 109, 142, 145, 168, 171, 194, 197, 220}
inout_rows_green == {120, 131}

\* the flag with the rows alone: the strip AJB..AJE left out
InOutFlagRowsOnly(p) ==
    LET y == Round(p.y)
    IN  IF p.region = "grey" THEN TRUE
        ELSE IF p.region = "purple" THEN y \in inout_rows_purple
        ELSE IF p.region = "orange" /\ y \in inout_rows_orange THEN TRUE
        ELSE IF p.region = "green" /\ y \in inout_rows_green THEN TRUE
        ELSE FALSE

\* the flag of lines 1021-1045 for a node record
InOutFlag(p) ==
    LET x == Round(p.x)
        y == Round(p.y)
    IN  IF p.region = "grey" THEN TRUE
        ELSE IF p.region = "purple"
             THEN y \in inout_rows_purple \/ (x_AJB <= x /\ x <= x_AJE)
        ELSE IF p.region = "orange" /\ y \in inout_rows_orange THEN TRUE
        ELSE IF p.region = "green" /\ y \in inout_rows_green THEN TRUE
        ELSE FALSE

Ids == {points[i].id : i \in 1..Len(points)}

FlagInOut ==
    /\ pc = "inout"
    /\ inout' = [pid \in Ids |-> InOutFlag(Node(pid))]
    /\ pc' = "attach"
    /\ UNCHANGED <<ws, points, coord_region, next_map, created, next_list, out_json, smp>>

\* p["next"] = sorted(next_map.get(pid, set()))
AttachNext ==
    /\ pc = "attach"
    /\ next_list' = [pid \in Ids |-> SortIds({e[2] : e \in {f \in next_map : f[1] = pid}})]
    /\ pc' = "dump"
    /\ UNCHANGED <<ws, points, coord_region, next_map, created, inout, out_json, smp>>

\* json.dump({"meta": meta, "points": list(points.values())}, ...)
Dump ==
    /\ pc = "dump"
    /\ out_json' = [i \in 1..Len(points) |->
                      [id |-> points[i].id, x |-> points[i].x, y |-> points[i].y,
                       region |-> points[i].region,
                       inout |-> inout[points[i].id],
                       next |-> next_list[points[i].id]]]
    /\ pc' = "done"
    /\ UNCHANGED <<ws, points, coord_region, next_map, created, inout, next_list, smp>>

Next ==
    \/ Anchors
    \/ GenBlueLeft
    \/ GenBlueAIS
    \/ GenPurpleH
    \/ GenGreyH
    \/ GenOrange
    \/ GenGreen
    \/ GenVertical
    \/ ConnectPurpleRows
    \/ LaneChangePurple
    \/ ConnectSegments
    \/ LaneChangeOG
    \/ BlueHorizontal
    \/ BlueAIPAIS
    \/ BlueVertical
    \/ PurpleVertical
    \/ BlueVerticalAIS
    \/ BluePurpleAdj
    \/ LaneChangeCols
    \/ GreyVSeam
    \/ GreyHRows
    \/ ForceRow22
    \/ Fallback
    \/ FlagInOut
    \/ AttachNext
    \/ Dump

Spec == Init /\ [][Next]_vars

-----------------------------------------------------------------------------
(* The two samplers on their own: any start, end and step > 0, in units *)

SamplerInit ==
    /\ ws = Layout({})
    /\ pc = "sampler"
    /\ points = << >>
    /\ coord_region = << >>
    /\ next_map = {}
    /\ created = 0
    /\ inout = << >>
    /\ next_list = << >>
    /\ out_json = << >>
    /\ \E a \in 0..MaxPos, b \in 0..MaxPos, st \in 1..MaxStep :
          smp = [st |-> "input", x_start |-> a, x_end |-> b, step |-> st,
                 xs |-> << >>, ys |-> << >>]

Sample ==
    /\ smp.st = "input"
    /\ smp' = [smp EXCEPT
                 !.st = "done",
                 !.xs = sample_positions_including_end(smp.x_start, smp.x_end, smp.step),
                 !.ys = sample_int_positions_including_end(smp.x_start, smp.x_end, smp.step)]
    /\ UNCHANGED <<ws, pc, points, coord_region, next_map, created, outv>>

SamplerNext == Sample

SpecSampler == SamplerInit /\ [][SamplerNext]_vars

-----------------------------------------------------------------------------
(* The nearest-neighbour matches on their own: one call on a drawn candidate list *)

\* the (pid, x, y) of a candidate list with the cell offsets pos from (AIV, 0)
CandList(pos) ==
    [k \in 1..Len(pos) |-> <<GreyHId(19, k), F(x_AIV + pos[k][1]), F(pos[k][2])>>]

NearestInit ==
    /\ ws = Layout({})
    /\ pc = "nearest"
    /\ points = << >>
    /\ coord_region = << >>
    /\ next_map = {}
    /\ created = 0
    /\ inout = << >>
    /\ next_list = << >>
    /\ out_json = << >>
    /\ \E n \in 0..MaxCands, q \in 0..MaxGap :
          \E pos \in [1..n -> (0..MaxGap) \X (0..1)] :
              smp = [st |-> "input", fn |-> "none", cands |-> CandList(pos), q |-> q, out |-> {}]

\* the call is made and the ids it returned are kept
Returned(fn, ids) ==
    /\ smp.st = "input"
    /\ smp' = [smp EXCEPT !.st = "done", !.fn = fn, !.out = ids]
    /\ UNCHANGED <<ws, pc, points, coord_region, next_map, created, outv>>

SeqIds(ids) == {ids[k] : k \in 1..Len(ids)}

CallNearestByY == Returned("nearest_by_y_ids", SeqIds(nearest_by_y_ids(smp.cands, F(smp.q), 2)))

CallNearestByX ==
    Returned("nearest_by_x_ids", SeqIds(nearest_by_x_ids(smp.cands, F(x_AIV + smp.q), 2)))

CallNearestInBand ==
    Returned("nearest_grey_by_x_in_band",
             SeqIds(nearest_grey_by_x_in_band(F(x_AIV + smp.q), smp.cands, 2)))

\* the fallback search for a blue node of column AIV, row q, with no edge yet
CallFallback ==
    LET p == Pt(BlueId(smp.q, col_AIV), F(x_AIV), F(smp.q), "blue", "cell", smp.q, col_AIV, 0)
    IN  Returned("fallback", {e[2] : e \in {f \in FallbackStep({}, p, smp.cands) : f[1] = p.id}})

NearestNext == CallNearestByY \/ CallNearestByX \/ CallNearestInBand \/ CallFallback

SpecNearest == NearestInit /\ [][NearestNext]_vars

\* what C1 asks of a returned sequence s for the call (a, b, step)
SampledWell(s, a, b, step) ==
    /\ Len(s) >= 1
    /\ s[1] = Min2(a, b)
    /\ Last(s) = Max2(a, b)
    /\ \A i \in 1..(Len(s) - 1) : s[i] < s[i + 1] /\ s[i + 1] - s[i] <= step

\* C1: for any start and end (in either order) and any pitch > 0, both samplers
\* return a strictly increasing sequence from min(start, end) to max(start, end)
\* whose consecutive elements are at most pitch apart.
C1_SamplerContract ==
    smp.st = "done" =>
        /\ SampledWell(smp.xs, smp.x_start, smp.x_end, smp.step)
        /\ SampledWell(smp.ys, smp.x_start, smp.x_end, smp.step)

-----------------------------------------------------------------------------
(* Properties of the node table *)

generation_pcs ==
    {"anchors", "blue_left", "blue_ais", "purple_h", "grey_h", "orange", "green", "vertical"}

\* the generation phase has run to its end
GenerationOver == pc \notin (generation_pcs \cup {"aborted", "sampler"})

SameCoord(p, q) == p.x = q.x /\ p.y = q.y

Nodes == {points[i] : i \in 1..Len(points)}

\* C2: after the generation phase exactly one node exists at each occupied exact
\* coordinate: no two nodes of the node table share their (x, y).
C2_OneNodePerCoordinate ==
    GenerationOver =>
        \A i, j \in 1..Len(points) : SameCoord(points[i], points[j]) => i = j

C4_IdsDistinct ==
    /\ created = Len(points)
    /\ Cardinality({IdChars(points[i].id) : i \in 1..Len(points)}) = Len(points)

\* both vertical ranges of one column have produced a node with the same index,
\* and both blue column ranges have produced blue nodes
C4_Witness ==
    /\ pc = "done"
    /\ \E p, q \in Nodes :
          /\ p.kind = "v" /\ q.kind = "v"
          /\ p.id[1] = q.id[1] /\ p.id[2] = q.id[2] /\ p.id[4] = q.id[4]
          /\ p.id[3] # q.id[3]
    /\ \E p, q \in Nodes :
          /\ p.region = "blue" /\ q.region = "blue"
          /\ p.col <= col_max_use /\ q.col >= col_AIS

-----------------------------------------------------------------------------
(* Properties of the edges *)

\* the node record of every id of the table
NodeOf == [pid \in Ids |-> Node(pid)]

\* the lane changes of the rows and of the columns are made
LanesChanged ==
    pc \in {"grey_v_seam", "grey_h_rows", "force_row22", "fallback", "inout", "attach", "dump", "done"}

\* C5: no node's outgoing set contains the node's own id, neither in next_map
\* during the connectivity rules nor in the exported next lists.
C5_NoSelfLoop ==
    /\ \A e \in next_map : e[1] # e[2]
    /\ \A i \in 1..Len(out_json) :
          \A k \in 1..Len(out_json[i].next) : out_json[i].next[k] # out_json[i].id

\* the export is written, with two nodes that reach each other
C5_Witness ==
    /\ pc = "done"
    /\ \E e \in next_map : <<e[2], e[1]>> \in next_map
    /\ \E i \in 1..Len(out_json) : Len(out_json[i].next) >= 2

\* C6: the source and the target of every edge are ids of the node table, in
\* every state of the connectivity phase and in the exported next lists.
C6_EdgesJoinNodes ==
    /\ \A e \in next_map : e[1] \in Ids /\ e[2] \in Ids
    /\ \A pid \in DOMAIN next_list :
          \A k \in 1..Len(next_list[pid]) : next_list[pid][k] \in Ids
    /\ \A i \in 1..Len(out_json) :
          \A k \in 1..Len(out_json[i].next) : out_json[i].next[k] \in Ids

\* the export is written with next lists that are not empty, and a purple column
\* has nodes whose neighbouring column has none, where the lookup of pid2 gives None
C6_Witness ==
    /\ pc = "done"
    /\ \E i \in 1..Len(out_json) : Len(out_json[i].next) >= 1
    /\ \E p \in Nodes :
          /\ p.region = "purple" /\ p.kind = "v" /\ Round(p.x) = x_AIV
          /\ get_pid_at(p.x + F(1), p.y, None, None) = NoId

\* sorted(...): s is strictly increasing in the order of Python strings
SortedIds(s) == \A k \in 1..(Len(s) - 1) : IdLess(s[k], s[k + 1])

\* C7: the output of a run is a function of the layout: whichever order the rows of
\* the sets of lines 741-749 are visited in, the blue/purple adjacency step yields
\* the edges of the ascending order, and every next list is written sorted.
C7_Deterministic ==
    [][/\ pc = "blue_purple_adj" => next_map' = AdjResult(next_map, AscOrder)
       /\ pc = "attach" => \A pid \in DOMAIN next_list' : SortedIds(next_list'[pid])]_vars

\* two blue nodes of one column have competed for the same purple node below them
C7_Witness ==
    /\ pc = "lane_change_cols"
    /\ \E e \in next_map, c \in Nodes :
          /\ NodeOf[e[1]].region = "blue" /\ NodeOf[e[2]].region = "purple"
          /\ c.region = "blue" /\ c.x = NodeOf[e[1]].x
          /\ c.y < NodeOf[e[1]].y /\ NodeOf[e[1]].y < NodeOf[e[2]].y
          /\ NodeOf[e[2]].y - c.y <= F(MAX_DY)

-----------------------------------------------------------------------------
(* Properties of the chains and of the lane changes *)

\* the direction of a row: purple rows 13-16, 22-23, 226-227 right and 24-25,
\* 228-229, 235-238 left; orange and green rows up to 125 right, from 126 on left;
\* a blue run takes the direction of its row
RowDirection(region, row) ==
    LET purple_dir == IF row \in (13..16) \cup (22..23) \cup (226..227) THEN "right"
                      ELSE IF row \in (24..25) \cup (228..229) \cup (235..238) THEN "left"
                      ELSE "none"
        og         == IF row <= 125 THEN "right" ELSE "left"
    IN  IF region = "purple" THEN purple_dir
        ELSE IF region \in {"orange", "green"} THEN og
        ELSE IF purple_dir # "none" THEN purple_dir ELSE og

\* a node of a horizontal chain: purple row, orange or green segment, blue cell
Chained(p) == p.kind \in {"h", "seg", "cell"}

\* C8: every edge between two chain nodes of the same row and the same region
\* goes to strictly larger x in a row whose direction is right and to strictly
\* smaller x in a row whose direction is left.
C8_ChainDirection ==
    \A e \in next_map :
        LET a == NodeOf[e[1]]
            b == NodeOf[e[2]]
            d == RowDirection(a.region, Round(a.y))
        IN  (Chained(a) /\ Chained(b) /\ a.region = b.region /\ a.y = b.y) =>
                /\ d \in {"right", "left"}
                /\ d = "right" => a.x < b.x
                /\ d = "left" => b.x < a.x

\* chains of the three regions run in both directions
C8_Witness ==
    /\ pc = "done"
    /\ \A region \in {"purple", "orange", "blue"}, d \in {"right", "left"} :
          \E e \in next_map :
              /\ NodeOf[e[1]].region = region /\ NodeOf[e[2]].region = region
              /\ Chained(NodeOf[e[1]]) /\ NodeOf[e[1]].y = NodeOf[e[2]].y
              /\ RowDirection(region, Round(NodeOf[e[1]].y)) = d

\* the edges of next_map among the nodes of S
EdgesAmong(S) == {e \in next_map : NodeOf[e[1]] \in S /\ NodeOf[e[2]] \in S}

\* the k-1 pairs of x-consecutive nodes of chain S, in direction d
Consecutive(S, d) ==
    LET pairs == {<<a, b>> \in S \X S :
                     a.x < b.x /\ ~\E c \in S : a.x < c.x /\ c.x < b.x}
    IN  {IF d = "right" THEN <<pr[1].id, pr[2].id>> ELSE <<pr[2].id, pr[1].id>> : pr \in pairs}

\* the chains of a region on row r: the purple row, or the segments of the row
ChainsOf(region, r) ==
    LET on == {p \in Nodes : p.region = region /\ p.kind \in {"h", "seg"} /\ Round(p.y) = r}
    IN  {{p \in on : p.seg = s} : s \in {q.seg : q \in on}}

\* C9: in the exported graph, the edges among the nodes of one region on one row (a purple row, or an orange
\* or green row with all its segments) are exactly the edges that join the
\* x-consecutive nodes of each chain in the row's direction: k - 1 for k nodes.
C9_ConsecutiveOnly ==
    pc = "done" =>
        \A region \in {"purple", "orange", "green"} :
            \A r \in {Round(p.y) : p \in {q \in Nodes : q.region = region /\ q.kind \in {"h", "seg"}}} :
                LET chains == ChainsOf(region, r)
                IN  /\ EdgesAmong(UNION chains)
                         = UNION {Consecutive(S, RowDirection(region, r)) : S \in chains}
                    /\ \A S \in chains :
                          Cardinality(EdgesAmong(S)) = Cardinality(S) - 1

\* a row has two orange segments of two nodes and more, and a purple row has three
C9_Witness ==
    /\ pc = "done"
    /\ \E r \in 1..ws.max_row :
          /\ Cardinality(ChainsOf("orange", r)) >= 2
          /\ \A S \in ChainsOf("orange", r) : Cardinality(S) >= 2
    /\ \E r \in 1..ws.max_row : \E S \in ChainsOf("purple", r) : Cardinality(S) >= 3

\* rows r1 and r2 are adjacent purple rows of one of the four groups
PurpleAdjacent(r1, r2) ==
    /\ r2 - r1 \in {1, -1}
    /\ \E g \in {13..16, 22..25, 226..229, 235..238} : r1 \in g /\ r2 \in g

\* rows r1 and r2 are adjacent orange or green rows, other than 125 and 126
OGAdjacent(r1, r2) ==
    /\ r2 - r1 \in {1, -1}
    /\ {r1, r2} # {125, 126}

\* columns x1 and x2 are adjacent purple columns: AIS-AIT, AIT-AIU, AIU-AIV, AJB-AJE
ColAdjacent(x1, x2) ==
    /\ x2 - x1 \in {1, -1}
    /\ \E g \in {x_AIS..x_AIV, x_AJB..x_AJE} : x1 \in g /\ x2 \in g

\* nodes a and b stand in lane-change adjacent rows or columns at the same coordinate
\* of the shared axis
LaneNeighbours(a, b) ==
    /\ a.region = b.region /\ a.kind = b.kind
    /\ \/ /\ a.region = "purple" /\ a.kind = "h"
          /\ PurpleAdjacent(Round(a.y), Round(b.y)) /\ a.x = b.x
       \/ /\ a.region \in {"orange", "green"} /\ a.kind = "seg"
          /\ OGAdjacent(Round(a.y), Round(b.y)) /\ a.x = b.x
       \/ /\ a.region = "purple" /\ a.kind = "v"
          /\ ColAdjacent(Round(a.x), Round(b.x)) /\ a.y = b.y

-----------------------------------------------------------------------------
(* The forbidden pair of rows 125 and 126 *)

OGNodes == {p \in Nodes : p.region \in {"orange", "green"}}

\* no edge joins an orange or green node of row 125 and one of row 126
NoEdge125_126 ==
    \A e \in next_map :
        LET a == NodeOf[e[1]]
            b == NodeOf[e[2]]
        IN  ~(a \in OGNodes /\ b \in OGNodes /\ {Round(a.y), Round(b.y)} = {125, 126})

\* C11 as stated: no edge between rows 125 and 126 of orange/green nodes, and every
\* other two numerically adjacent rows holding orange or green nodes are joined in
\* both directions at each x where both rows have such a node, whatever the regions
\* of the two nodes.
C11_AnyAdjacentRows ==
    LanesChanged =>
        /\ NoEdge125_126
        /\ \A a, b \in OGNodes :
              (OGAdjacent(Round(a.y), Round(b.y)) /\ a.x = b.x) => <<a.id, b.id>> \in next_map

\* C11, amended: no edge between rows 125 and 126 of orange/green nodes, and every
\* other two numerically adjacent rows are joined in both directions at each x where
\* both rows have a node of the same region (orange with orange, green with green);
\* an orange node and a green node of adjacent rows are never joined.
C11_ForbiddenPair ==
    LanesChanged =>
        /\ NoEdge125_126
        /\ \A a, b \in OGNodes :
              (OGAdjacent(Round(a.y), Round(b.y)) /\ a.x = b.x) =>
                  (<<a.id, b.id>> \in next_map <=> a.region = b.region)

\* rows 125 and 126 both have an orange node at one x, row 127 a green one, and
\* rows 28 and 29 are joined
C11_Witness ==
    /\ pc = "done"
    /\ \E a, b, c \in OGNodes :
          /\ Round(a.y) = 125 /\ Round(b.y) = 126 /\ Round(c.y) = 127
          /\ a.x = b.x /\ b.x = c.x
          /\ a.region = "orange" /\ b.region = "orange" /\ c.region = "green"
    /\ \E a, b \in OGNodes : Round(a.y) = 28 /\ Round(b.y) = 29 /\ <<a.id, b.id>> \in next_map

-----------------------------------------------------------------------------
(* Blue runs and their outside neighbours *)

\* the nodes at the coordinate of cell column c of row r
NodesAt(c, r) == {p \in Nodes : p.x = F(c - 1) /\ p.y = F(r)}

\* the blue runs <<r, c1, c2>> of the sheet
BlueRuns ==
    UNION {{<<r, blue_segs(r)[k][1], blue_segs(r)[k][2]>> : k \in 1..Len(blue_segs(r))}
           : r \in 1..ws.max_row}

\* the columns of the entry end and of the exit end of a run
EntryCol(run) == IF row_lr_dir(run[1]) = "right" THEN run[2] ELSE run[3]
ExitCol(run) == IF row_lr_dir(run[1]) = "right" THEN run[3] ELSE run[2]
Ahead(run) == IF row_lr_dir(run[1]) = "right" THEN 1 ELSE -1

\* the run is entered from the non-blue node before it and left to the one after it
RunBridged(run) ==
    LET r == run[1]
    IN  /\ \A b \in NodesAt(EntryCol(run), r), n \in NodesAt(EntryCol(run) - Ahead(run), r) :
              (b.region = "blue" /\ n.region # "blue") =>
                  \E m \in NodesAt(EntryCol(run) - Ahead(run), r) :
                      m.region # "blue" /\ <<m.id, b.id>> \in next_map
        /\ \A b \in NodesAt(ExitCol(run), r), n \in NodesAt(ExitCol(run) + Ahead(run), r) :
              (b.region = "blue" /\ n.region # "blue") =>
                  \E m \in NodesAt(ExitCol(run) + Ahead(run), r) :
                      m.region # "blue" /\ <<b.id, m.id>> \in next_map

\* C12: every contiguous blue run of a row, of any length, single cells included, has
\* an edge from the non-blue node at the coordinate just before its entry end to its
\* entry-end blue node, and an edge from its exit-end blue node to the non-blue node
\* at the coordinate just after it, wherever such a non-blue node exists.
C12_BlueRunBridged == pc = "done" => \A run \in BlueRuns : RunBridged(run)

\* the same, for the runs of two cells or more
C12_LongRunsBridged ==
    pc = "done" => \A run \in BlueRuns : run[3] > run[2] => RunBridged(run)

\* a single-cell blue run stands next to a purple node, and a longer run is bridged
C12_Witness ==
    /\ pc = "done"
    /\ \E run \in BlueRuns :
          /\ run[2] = run[3]
          /\ \E b \in NodesAt(run[2], run[1]), n \in NodesAt(run[2] - 1, run[1]) :
                b.region = "blue" /\ n.region = "purple"
    /\ \E run \in BlueRuns :
          /\ run[3] > run[2]
          /\ \E b \in NodesAt(ExitCol(run), run[1]), n \in NodesAt(ExitCol(run) + Ahead(run), run[1]) :
                b.region = "blue" /\ n.region # "blue" /\ <<b.id, n.id>> \in next_map

-----------------------------------------------------------------------------
(* The vertical direction of the columns of a blue run *)

\* the blue runs that hold the cell of blue node p
RunsOf(p) == {run \in BlueRuns : run[1] = p.row /\ run[2] <= p.col /\ p.col <= run[3]}

\* the edges between two blue nodes of one column
BlueVerticalEdges ==
    {e \in next_map : /\ NodeOf[e[1]].region = "blue" /\ NodeOf[e[2]].region = "blue"
                      /\ NodeOf[e[1]].x = NodeOf[e[2]].x /\ NodeOf[e[1]].y # NodeOf[e[2]].y}

\* C13 as stated: a vertical blue-to-blue edge that leaves a node of the half of its
\* run nearer the run's first column goes to smaller y, and one that leaves a node of
\* the other half goes to larger y, whatever the width of the run (the middle column
\* of a run of odd width is left free).
C13_SplitInHalf ==
    pc = "done" =>
        \A e \in BlueVerticalEdges : \A run \in RunsOf(NodeOf[e[1]]) :
            LET a     == NodeOf[e[1]]
                b     == NodeOf[e[2]]
                off   == a.col - run[2]
                width == run[3] - run[2] + 1
            IN  /\ 2 * off + 1 < width => b.y < a.y
                /\ 2 * off + 1 > width => b.y > a.y

\* C13, amended: a vertical blue-to-blue edge to smaller y leaves a node that is in one
\* of the first two columns of its run or in column AIS or AIT; one to larger y leaves
\* a node that is in the third or a later column of its run or in column AIU or AIV.
\* For a run of four columns outside AIS..AIV, or one that spans AIS..AIV, this is the
\* split in half.
C13_FirstTwoColumnsUp ==
    pc = "done" =>
        \A e \in BlueVerticalEdges : \A run \in RunsOf(NodeOf[e[1]]) :
            LET a   == NodeOf[e[1]]
                b   == NodeOf[e[2]]
                off == a.col - run[2]
            IN  /\ b.y < a.y => (off <= 1 \/ Round(a.x) \in {x_AIS, x_AIT})
                /\ b.y > a.y => (off >= 2 \/ Round(a.x) \in {x_AIU, x_AIV})

\* an edge to smaller y leaves the second column of a run of two columns, an edge to
\* larger y leaves the second column of a run that starts at AIT, and the columns of
\* the runs of four left of AIS are split in half
C13_Witness ==
    /\ pc = "done"
    /\ \E e \in BlueVerticalEdges : \E run \in RunsOf(NodeOf[e[1]]) :
          /\ run[3] = run[2] + 1 /\ NodeOf[e[1]].col = run[3]
          /\ NodeOf[e[2]].y < NodeOf[e[1]].y
    /\ \E e \in BlueVerticalEdges : \E run \in RunsOf(NodeOf[e[1]]) :
          /\ run[2] = col_AIT /\ NodeOf[e[1]].col = col_AIU
          /\ NodeOf[e[2]].y > NodeOf[e[1]].y
    /\ \E e, f \in BlueVerticalEdges :
          \E run \in RunsOf(NodeOf[e[1]]), run2 \in RunsOf(NodeOf[f[1]]) :
              /\ run[3] = run[2] + 3 /\ run2[3] = run2[2] + 3 /\ run[3] < col_AIS
              /\ run2[2] = run[2]
              /\ NodeOf[e[1]].col = run[2] + 1 /\ NodeOf[e[2]].y < NodeOf[e[1]].y
              /\ NodeOf[f[1]].col = run[2] + 2 /\ NodeOf[f[2]].y > NodeOf[f[1]].y

-----------------------------------------------------------------------------
(* The reach of the vertical blue links *)

BlueNodes == {p \in Nodes : p.region = "blue"}

\* p is in one of the first two columns of its run
UpNode(p) == \E run \in RunsOf(p) : p.col - run[2] <= 1

\* c lies strictly between a and b in their column
Between(c, a, b) ==
    /\ c.x = a.x
    /\ (a.y < c.y /\ c.y < b.y) \/ (b.y < c.y /\ c.y < a.y)

Rows(a, b) == Abs(Round(a.y) - Round(b.y))

\* a link of the bounded sort: in AIS, AIT upwards, in AIU, AIV downwards, to the
\* nearest blue node, at most five rows away
BoundedLink(a, b) ==
    /\ \/ Round(a.x) \in {x_AIS, x_AIT} /\ b.y < a.y
       \/ Round(a.x) \in {x_AIU, x_AIV} /\ b.y > a.y
    /\ Rows(a, b) <= 5
    /\ \A c \in BlueNodes : ~Between(c, a, b)

\* a link of the unbounded sort: between two nodes of one vertical direction, in that
\* direction, to the nearest node of that direction
ColumnLink(a, b) ==
    /\ UpNode(a) = UpNode(b)
    /\ IF UpNode(a) THEN b.y < a.y ELSE b.y > a.y
    /\ \A c \in BlueNodes : Between(c, a, b) => UpNode(c) # UpNode(a)

\* C14 as stated: every vertical edge between two blue nodes of a column leads to
\* the nearest blue node on that side and spans at most 5 rows.
C14_WithinFiveRows ==
    pc = "done" =>
        \A e \in BlueVerticalEdges :
            /\ Rows(NodeOf[e[1]], NodeOf[e[2]]) <= 5
            /\ \A c \in BlueNodes : ~Between(c, NodeOf[e[1]], NodeOf[e[2]])

\* C14, amended: every vertical edge between two blue nodes of a column is either a
\* link of the bounded sort (columns AIS..AIV, nearest blue node, at most 5 rows) or
\* a link to the nearest blue node of the same vertical direction (the first two
\* columns of a run upwards, the others downwards), however far and whatever blue
\* nodes of the other direction lie between.
C14_NearestInDirection ==
    pc = "done" =>
        \A e \in BlueVerticalEdges :
            \/ BoundedLink(NodeOf[e[1]], NodeOf[e[2]])
            \/ ColumnLink(NodeOf[e[1]], NodeOf[e[2]])

\* in column AIU an edge spans seven rows and passes over a blue node of the other
\* direction, a node of the first two columns of its run has a bounded link
\* downwards, and the node six rows above the next one has no edge to it
C14_Witness ==
    /\ pc = "done"
    /\ \E e \in BlueVerticalEdges : \E c \in BlueNodes :
          /\ Rows(NodeOf[e[1]], NodeOf[e[2]]) = 7
          /\ Round(c.x) = x_AIU /\ Between(c, NodeOf[e[1]], NodeOf[e[2]])
    /\ \E e \in BlueVerticalEdges :
          /\ Round(NodeOf[e[1]].x) = x_AIU /\ UpNode(NodeOf[e[1]])
          /\ BoundedLink(NodeOf[e[1]], NodeOf[e[2]])
    /\ \E a, b \in BlueNodes :
          /\ Round(a.x) = x_AIU /\ a.x = b.x /\ Round(b.y) = Round(a.y) + 6
          /\ \A c \in BlueNodes : ~Between(c, a, b)
          /\ <<a.id, b.id>> \notin next_map

-----------------------------------------------------------------------------
(* The seam of the vertical grey strip *)

GreyV == {p \in Nodes : p.region = "grey" /\ p.kind = "v"}

\* the seam candidates of column AIV and of column AJB
SeamAIV ==
    {p \in Nodes : /\ Round(p.x) = x_AIV
                   /\ \/ p.region = "purple"
                      \/ p.region = "blue" /\ Round(p.y) \notin 102..149}
SeamAJB == {p \in Nodes : Round(p.x) = x_AJB /\ p.region = "purple"}

\* the candidates of C at the least distance in y from g
NearestInY(g, C) == {c \in C : \A c2 \in C : Abs(c.y - g.y) <= Abs(c2.y - g.y)}

\* the links of every vertical grey node with its nearest candidates, both ways
SeamLinks(C) ==
    UNION {UNION {{<<g.id, c.id>>, <<c.id, g.id>>} : c \in NearestInY(g, C)} : g \in GreyV}

\* C15: the seam step links every vertical grey node with exactly the candidates of
\* column AIV (purple or blue, blue of rows 102-149 left out) and of column AJB
\* (purple) at the least |y - y_g|, one node or two on an exact tie, in both
\* directions, and adds nothing else.
C15_SeamNearest ==
    [][pc = "grey_v_seam" =>
           /\ next_map' = next_map \cup SeamLinks(SeamAIV) \cup SeamLinks(SeamAJB)
           /\ \A g \in GreyV : /\ Cardinality(NearestInY(g, SeamAIV)) <= 2
                                /\ Cardinality(NearestInY(g, SeamAJB)) <= 2]_vars

\* after the seam step one vertical grey node is linked with its single nearest node
\* of AIV and another with two nodes of AJB at the same distance, one of AIV being blue
C15_Witness ==
    /\ pc = "grey_h_rows"
    /\ \E g \in GreyV : \E c \in SeamAIV :
          /\ NearestInY(g, SeamAIV) = {c} /\ c.y # g.y /\ Cardinality(SeamAIV) > 1
          /\ <<g.id, c.id>> \in next_map /\ <<c.id, g.id>> \in next_map
    /\ \E g \in GreyV : \E c, d \in SeamAJB :
          /\ c # d /\ NearestInY(g, SeamAJB) = {c, d}
          /\ {<<g.id, c.id>>, <<c.id, g.id>>, <<g.id, d.id>>, <<d.id, g.id>>} \subseteq next_map
    /\ \E g \in GreyV : \E c \in NearestInY(g, SeamAIV) : c.region = "blue"

-----------------------------------------------------------------------------
(* The cap of two on a nearest-neighbour match *)

\* the squared distance in the plane of candidate t from the blue node of the call
Dist2(t) == (t[2] - F(x_AIV)) * (t[2] - F(x_AIV)) + (t[3] - F(smp.q)) * (t[3] - F(smp.q))

\* the candidates of the call strictly to the right of column AIV
RightOf == {k \in 1..Len(smp.cands) : smp.cands[k][2] > F(x_AIV) + EPS}

\* C16: a nearest-neighbour match (nearest_by_y_ids, nearest_by_x_ids,
\* nearest_grey_by_x_in_band, the fallback search in the plane) returns at most two
\* of its candidates for the source node, however many stand at the least distance,
\* and at least one when there is a candidate to take.
C16_AtMostTwo ==
    (pc = "nearest" /\ smp.st = "done") =>
        /\ Cardinality(smp.out) <= 2
        /\ smp.out \subseteq {smp.cands[k][1] : k \in 1..Len(smp.cands)}
        /\ (smp.fn # "fallback" /\ Len(smp.cands) > 0) => smp.out # {}
        /\ (smp.fn = "fallback" /\ RightOf # {}) => smp.out # {}

\* the fallback search had three candidates at the least distance and took two
C16_Witness ==
    /\ pc = "nearest" /\ smp.st = "done" /\ smp.fn = "fallback"
    /\ Cardinality(RightOf) = 3
    /\ \A j, k \in RightOf : Dist2(smp.cands[j]) = Dist2(smp.cands[k])
    /\ Cardinality(smp.out) = 2

-----------------------------------------------------------------------------
(* The fallback for the blue nodes of column AIV *)

GreyNodes == {p \in Nodes : p.region = "grey"}

\* the blue nodes of column AIV outside rows 102-149
BlueAIV == {b \in BlueNodes : Round(b.x) = x_AIV /\ Round(b.y) \notin 102..149}

\* b has an outgoing edge to a grey node
HasGreyOut(b) == \E g \in GreyNodes : <<b.id, g.id>> \in next_map

GreyRightOf(b) == {g \in GreyNodes : g.x > b.x}

\* C17: the fallback step adds edges only between a blue node of column AIV (rows
\* outside 102-149) that has no grey outgoing neighbour at that moment and a grey
\* node to its right, in both directions; after the step every such blue node with
\* some grey node strictly to its right has a grey neighbour linked both ways; a
\* node that already had a grey neighbour keeps its outgoing edges as they were; the
\* step comes after the three other grey bridging steps, and no edge is added after it.
C17_Fallback ==
    [][/\ pc = "fallback" =>
             LET Lacking == {b \in BlueAIV : ~HasGreyOut(b)}
             IN  /\ next_map \subseteq next_map'
                 /\ \A e \in next_map' \ next_map :
                       \E b \in Lacking : \E g \in GreyRightOf(b) :
                           e \in {<<b.id, g.id>>, <<g.id, b.id>>}
                 /\ \A b \in Lacking :
                       GreyRightOf(b) # {} =>
                           \E g \in GreyNodes :
                               {<<b.id, g.id>>, <<g.id, b.id>>} \subseteq next_map'
                 /\ \A b \in BlueNodes \ Lacking :
                       {e \in next_map' : e[1] = b.id} = {e \in next_map : e[1] = b.id}
       /\ pc \in {"grey_v_seam", "grey_h_rows", "force_row22"} => pc' # "inout"
       /\ pc' = "fallback" => pc = "force_row22"
       /\ pc \in {"inout", "attach", "dump", "done"} => next_map' = next_map]_vars

\* after the fallback: a blue node of AIV is linked both ways with a grey node that
\* the seam step did not give it; another has only a one-way edge to a grey node,
\* which it had before; a third has the seam's links
C17_Witness ==
    /\ pc = "inout"
    /\ \E b \in BlueAIV : \E g \in GreyV :
          /\ {<<b.id, g.id>>, <<g.id, b.id>>} \subseteq next_map
          /\ b \notin NearestInY(g, SeamAIV)
    /\ \E b \in BlueAIV : \E g \in GreyNodes :
          /\ <<b.id, g.id>> \in next_map /\ <<g.id, b.id>> \notin next_map
          /\ GreyRightOf(b) # {}
    /\ \E b \in BlueAIV : \E g \in GreyV :
          /\ {<<b.id, g.id>>, <<g.id, b.id>>} \subseteq next_map
          /\ b \in NearestInY(g, SeamAIV)

-----------------------------------------------------------------------------
(* Running to completion *)

\* the four anchor cells E13, A28, E28, E120 have a colour
AnchorsDetected ==
    \A c \in {<<row_E13, col_E>>, <<row_A28, col_A>>, <<row_E28, col_E>>, <<row_E120, col_E>>} :
        color_id(ws, c[1], c[2]) # None

\* the document holds every node, in table order, with its successors in next_map
Assembled ==
    /\ pc = "done"
    /\ Len(out_json) = Len(points)
    /\ \A i \in 1..Len(points) :
          /\ out_json[i].id = points[i].id
          /\ {out_json[i].next[k] : k \in 1..Len(out_json[i].next)}
                = {e[2] : e \in {f \in next_map : f[1] = points[i].id}}

\* e touches a blue node of a run of two cells or more
InLongRun(e) ==
    \E k \in 1..2 : \E run \in RunsOf(NodeOf[e[k]]) :
        NodeOf[e[k]].region = "blue" /\ run[3] > run[2]

\* the blocks of main() in the order of the source
Blocks ==
    << "anchors", "blue_left", "blue_ais", "purple_h", "grey_h", "orange", "green",
       "vertical", "conn_purple_rows", "lane_change_purple", "conn_segments",
       "lane_change_og", "blue_horizontal", "blue_aip_ais", "blue_vertical",
       "purple_vertical", "blue_vertical_ais", "blue_purple_adj", "lane_change_cols",
       "grey_v_seam", "grey_h_rows", "force_row22", "fallback", "inout", "attach",
       "dump", "done" >>

\* the block that follows block b
Following(b) == Blocks[1 + CHOOSE k \in 1..(Len(Blocks) - 1) : Blocks[k] = b]

\* C18: in every layout whose four anchor colours are detected each block of the
\* generator hands over to the block that follows it in the source, none goes back
\* or to the aborted state, and the end is reached only with the graph assembled; a
\* blue run with fewer than two nodes gets no edge from the horizontal blue links,
\* and a layout with an empty candidate set (no purple or blue node in row 22 under
\* a grey band) goes on like any other.
C18_RunsToCompletion ==
    /\ [](AnchorsDetected => pc \in {Blocks[k] : k \in 1..Len(Blocks)})
    /\ [](pc = "done" => Assembled)
    /\ [][AnchorsDetected => pc' = Following(pc)]_vars
    /\ [][pc = "blue_horizontal" => \A e \in next_map' \ next_map : InLongRun(e)]_vars

\* the end is reached with a grey band and no purple or blue node in row 22, and a
\* blue run of one cell beside a purple node
C18_Witness ==
    /\ Assembled /\ AnchorsDetected
    /\ \E g \in GreyNodes : g.kind = "h"
    /\ \A p \in Nodes : p.region \in {"purple", "blue"} => Round(p.y) # 22
    /\ \E run \in BlueRuns :
          /\ run[2] = run[3]
          /\ \E n \in NodesAt(run[2] - 1, run[1]) : n.region = "purple"

------------------------------------------------------------------------------
(* C19 *)

\* nothing has been created or written
NothingMade ==
    /\ points = << >>
    /\ coord_region = << >>
    /\ next_map = {}
    /\ created = 0
    /\ outv = << << >>, << >>, << >> >>

\* C19: a layout in which one of the four anchor cells E13, A28, E28, E120 has no
\* colour aborts at the anchor test, before any node or edge is created and with no
\* document written, and stays so; a step into the aborted state is taken from the
\* anchor test of such a layout and from nowhere else.
C19_AbortOnlyOnAnchors ==
    /\ [](pc = "aborted" => ~AnchorsDetected /\ NothingMade)
    /\ [](~AnchorsDetected => pc \in {"anchors", "aborted"} /\ NothingMade)
    /\ [][pc' = "aborted" <=> (pc = "anchors" /\ ~AnchorsDetected)]_vars

\* the abort has happened in a layout whose blue anchor A28 alone has no colour
C19_Witness ==
    /\ pc = "aborted"
    /\ color_id(ws, row_A28, col_A) = None
    /\ color_id(ws, row_E13, col_E) # None
    /\ color_id(ws, row_E28, col_E) # None
    /\ color_id(ws, row_E120, col_E) # None

------------------------------------------------------------------------------
(* C20 *)

\* C20: no edge exists while nodes are still being generated; from the start of the
\* connectivity phase on, the node table and the coordinate index never change (no
\* node is created, deleted, moved or given another region); an edge of next_map is
\* never removed; and from the attachment of the sorted next lists on, next_map does
\* not change, nor do the next lists once attached.
C20_NodesThenEdges ==
    /\ [](~GenerationOver => next_map = {})
    /\ [][GenerationOver =>
             (points' = points /\ coord_region' = coord_region /\ created' = created)]_vars
    /\ [][next_map \subseteq next_map']_vars
    /\ [][(pc \in {"inout", "attach", "dump", "done"}) => next_map' = next_map]_vars
    /\ [][(pc \in {"dump", "done"}) => next_list' = next_list]_vars

\* the document is written; the graph holds an edge of the first connectivity block
\* (purple row) and one of the last (blue to grey), and the next lists hold both
C20_Witness ==
    /\ pc = "done"
    /\ \E e \in next_map :
          /\ NodeOf[e[1]].region = "purple" /\ NodeOf[e[2]].region = "purple"
          /\ NodeOf[e[1]].y = NodeOf[e[2]].y
          /\ \E k \in 1..Len(next_list[e[1]]) : next_list[e[1]][k] = e[2]
    /\ \E e \in next_map :
          /\ NodeOf[e[1]].region = "blue" /\ NodeOf[e[2]].region = "grey"
          /\ \E k \in 1..Len(next_list[e[1]]) : next_list[e[1]][k] = e[2]

------------------------------------------------------------------------------
(* C21 *)

\* the node is one of those the flagging step marks as an interaction point
Interaction(p) ==
    \/ p.region = "grey"
    \/ /\ p.region = "purple"
       /\ \/ Round(p.y) \in {13, 14, 15, 16, 235, 236, 237, 238}
          \/ Round(p.x) \in x_AJB..x_AJE
    \/ /\ p.region = "orange"
       /\ Round(p.y) \in {31, 54, 57, 80, 83, 106, 109, 142, 145, 168, 171, 194, 197, 220}
    \/ p.region = "green" /\ Round(p.y) \in {120, 131}

\* C21: the flagging step gives every node a flag, true exactly for the grey
\* nodes, the purple nodes of rows 13-16 and 235-238 or of columns AJB..AJE, the
\* orange nodes of rows 31, 54, 57, 80, 83, 106, 109, 142, 145, 168, 171, 194, 197,
\* 220 and the green nodes of rows 120 and 131, false for every blue node; the
\* node table and the edges stay as they were, and the flags are exported as set.
C21_InOutFlags ==
    /\ [][pc = "inout" =>
             /\ DOMAIN inout' = {p.id : p \in Nodes}
             /\ \A p \in Nodes : inout'[p.id] <=> Interaction(p)
             /\ \A p \in Nodes : p.region = "blue" => ~inout'[p.id]
             /\ points' = points /\ next_map' = next_map]_vars
    /\ [](pc = "done" => \A i \in 1..Len(out_json) :
                             out_json[i].inout <=> Interaction(points[i]))

\* the flags are set: true for an orange node of row 31, a purple node of row 14,
\* a vertical purple node of the strip AJB..AJE, a green node of row 120 and a
\* vertical grey node; false for an orange node of row 30, a vertical purple node
\* of column AIS, and a blue node
C21_Witness ==
    /\ pc = "attach"
    /\ \E p \in Nodes : p.region = "orange" /\ Round(p.y) = 31 /\ inout[p.id]
    /\ \E p \in Nodes : p.region = "orange" /\ Round(p.y) = 30 /\ ~inout[p.id]
    /\ \E p \in Nodes : p.region = "purple" /\ Round(p.y) = 14 /\ inout[p.id]
    /\ \E p \in Nodes : p.region = "purple" /\ Round(p.x) = x_AJB /\ inout[p.id]
    /\ \E p \in Nodes : p.region = "purple" /\ Round(p.x) = x_AIS /\ ~inout[p.id]
    /\ \E p \in Nodes : p.region = "green" /\ Round(p.y) = 120 /\ inout[p.id]
    /\ \E p \in Nodes : p.region = "grey" /\ p.kind = "v" /\ inout[p.id]
    /\ \E p \in Nodes : p.region = "blue" /\ ~inout[p.id]

------------------------------------------------------------------------------
(* C22 *)

\* the targets of the edges added from node pid
Targets(pid) == {e[2] : e \in {f \in next_map : f[1] = pid}}

\* C22: in the exported document the next list of every node is strictly ascending
\* in the order of the id strings, names no id twice, and holds exactly the targets
\* of the edges added from the node; a node with no edge has the empty list.
C22_SortedNextLists ==
    pc = "done" =>
        \A i \in 1..Len(out_json) :
            LET nx == out_json[i].next
            IN  /\ \A j \in 1..(Len(nx) - 1) : SeqLess(IdChars(nx[j]), IdChars(nx[j + 1]))
                /\ \A j, k \in 1..Len(nx) : j # k => nx[j] # nx[k]
                /\ {nx[j] : j \in 1..Len(nx)} = Targets(out_json[i].id)
                /\ Targets(out_json[i].id) = {} => nx = << >>

\* the document is written; an edge between two blue nodes of column AIT comes both
\* from the links of the run offsets and from the links of columns AIS..AIV and
\* stands once in the list; a list holds ids of several tags; a node has no edge
C22_Witness ==
    /\ pc = "done"
    /\ \E e \in BlueColumnLinks(x_AIS..x_AIT, -1) :
          /\ ColumnLink(NodeOf[e[1]], NodeOf[e[2]])
          /\ Cardinality({k \in 1..Len(next_list[e[1]]) : next_list[e[1]][k] = e[2]}) = 1
    /\ \E i \in 1..Len(out_json) :
          /\ Len(out_json[i].next) >= 3
          /\ \E j, k \in 1..Len(out_json[i].next) :
                out_json[i].next[j][1] # out_json[i].next[k][1]
    /\ \E i \in 1..Len(out_json) : out_json[i].next = << >>

------------------------------------------------------------------------------
(* C23 *)

\* the vertical purple nodes
PurpleV == {p \in Nodes : p.region = "purple" /\ p.kind = "v"}

\* the edges between two vertical purple nodes of one column
PurpleColumnEdges ==
    {e \in next_map : /\ NodeOf[e[1]] \in PurpleV /\ NodeOf[e[2]] \in PurpleV
                      /\ Round(NodeOf[e[1]].x) = Round(NodeOf[e[2]].x)}

\* a and b lie in the same vertical range
SameRange(a, b) ==
    \E j \in 1..Len(vertical_ranges) :
        \A p \in {a, b} :
            F(vertical_ranges[j][1]) <= p.y /\ p.y <= F(vertical_ranges[j][2])

\* C23: every edge between two vertical purple nodes of one column joins two nodes
\* of the same vertical range with no purple node of the column between them and at
\* most 5 rows apart; it goes to smaller y in columns AIS..AIT and to larger y in
\* columns AIU..AIV and AJB..AJE, and no other column has such an edge.
C23_PurpleColumns ==
    pc = "done" =>
        \A e \in PurpleColumnEdges :
            LET a == NodeOf[e[1]]
                b == NodeOf[e[2]]
            IN  /\ SameRange(a, b)
                /\ Rows(a, b) <= 5
                /\ \A c \in PurpleV : Round(c.x) = Round(a.x) => ~Between(c, a, b)
                /\ \/ Round(a.x) \in x_AIS..x_AIT /\ b.y < a.y
                   \/ Round(a.x) \in (x_AIU..x_AIV) \cup (x_AJB..x_AJE) /\ b.y > a.y

\* the chains are made: an edge of 5 rows upwards in column AIS, an edge downwards
\* in column AJB, an edge shorter than 5 rows, and in column AIU two purple nodes of
\* one range with a gap of 7 rows (a blue node took the place between) and no edge
C23_Witness ==
    /\ pc = "done"
    /\ \E e \in PurpleColumnEdges :
          /\ Round(NodeOf[e[1]].x) = x_AIS
          /\ Round(NodeOf[e[2]].y) = Round(NodeOf[e[1]].y) - 5
    /\ \E e \in PurpleColumnEdges :
          Round(NodeOf[e[1]].x) = x_AJB /\ NodeOf[e[2]].y > NodeOf[e[1]].y
    /\ \E e \in PurpleColumnEdges : Rows(NodeOf[e[1]], NodeOf[e[2]]) < 5
    /\ \E a, b \in PurpleV :
          /\ Round(a.x) = x_AIU /\ Round(b.x) = x_AIU /\ SameRange(a, b)
          /\ Round(b.y) = Round(a.y) + 7
          /\ \A c \in PurpleV : Round(c.x) = x_AIU => ~Between(c, a, b)
          /\ <<a.id, b.id>> \notin next_map /\ <<b.id, a.id>> \notin next_map

------------------------------------------------------------------------------
(* C24 *)

\* the way the vertical corridor of column x runs: -1 upwards, 1 downwards, 0 none
CorridorSign(x) ==
    IF x \in x_AIS..x_AIT THEN -1 ELSE IF x \in x_AIU..x_AIV THEN 1 ELSE 0

\* blue node b stands upstream of the vertical purple node p in its column, 1 to 5
\* rows away, with neither a purple nor a blue node of the column between them
NearestUpstream(b, p) ==
    /\ Round(b.x) = Round(p.x) /\ CorridorSign(Round(p.x)) # 0
    /\ CorridorSign(Round(p.x)) * (Round(p.y) - Round(b.y)) \in 1..5
    /\ \A c \in BlueNodes \cup PurpleV : Round(c.x) = Round(p.x) => ~Between(c, b, p)

------------------------------------------------------------------------------
(* C25 *)

\* the nodes of the horizontal grey bands
GreyH == {p \in Nodes : p.region = "grey" /\ p.kind = "h"}

\* the boundary rows of the band a horizontal grey node stands in
BoundaryRows(g) == IF Round(g.y) = 19 THEN {16, 22} ELSE {229, 235}

\* C25: every edge with a horizontal grey node at one end has at its other end a
\* purple or blue node of a boundary row of that band (16 or 22 for the band at
\* y = 19, 229 or 235 for the band at y = 232) outside columns AIS..AJB.
C25_GreyBandsToBoundaryRows ==
    pc = "done" =>
        \A e \in next_map : \A k \in 1..2 :
            NodeOf[e[k]] \in GreyH =>
                LET n == NodeOf[e[3 - k]]
                IN  /\ n.region \in {"purple", "blue"}
                    /\ Round(n.y) \in BoundaryRows(NodeOf[e[k]])
                    /\ Round(n.x) \notin x_AIS..x_AJB

\* the band ends at column AIL and a blue run starts in row 19 right after it: the
\* last grey node of the band has an edge to the first blue node of the run
C25_Witness ==
    /\ pc = "done"
    /\ \A g \in GreyH : g.x <= F(x_AIL)
    /\ \E g \in GreyH : \E b \in BlueNodes :
          /\ Round(g.x) = x_AIL /\ Round(b.x) = x_AIL + 1 /\ Round(b.y) = 19
          /\ <<g.id, b.id>> \in next_map

------------------------------------------------------------------------------
(* C26 *)

\* the horizontal purple nodes
PurpleH == {p \in Nodes : p.region = "purple" /\ p.kind = "h"}

\* the pairs of rows at which the purple direction turns from right to left
FlipPairs == {{23, 24}, {227, 228}}

\* C26: no edge joins a purple node of row 23 with the purple node of row 24 at
\* the same x, nor one of row 227 with the one of row 228 at the same x.
C26_NoLaneChangeAtFlip ==
    \A e \in next_map :
        (NodeOf[e[1]] \in PurpleH /\ NodeOf[e[2]] \in PurpleH /\ NodeOf[e[1]].x = NodeOf[e[2]].x)
            => {Round(NodeOf[e[1]].y), Round(NodeOf[e[2]].y)} \notin FlipPairs

\* rows 23 and 24 and rows 227 and 228 are purple, and the nodes of column E of each
\* pair are linked both ways
C26_Witness ==
    /\ pc = "done"
    /\ \A pr \in {<<23, 24>>, <<227, 228>>} :
          \E a, b \in PurpleH :
              /\ Round(a.y) = pr[1] /\ Round(b.y) = pr[2]
              /\ a.x = F(x_E) /\ b.x = F(x_E)
              /\ <<a.id, b.id>> \in next_map /\ <<b.id, a.id>> \in next_map

------------------------------------------------------------------------------
(* C27 *)

\* the pairs of a blue node of column AIP and a blue node of column AIS of one row
AIPAISPairs ==
    {pr \in BlueNodes \X BlueNodes :
        /\ Round(pr[1].x) = x_AIP /\ Round(pr[2].x) = x_AIS
        /\ Round(pr[1].y) = Round(pr[2].y)}

\* C27: in every row with a blue node in column AIP and a blue node in column AIS
\* the two are linked both ways.
C27_AIPAISBothWays ==
    pc = "done" =>
        \A pr \in AIPAISPairs :
            /\ <<pr[1].id, pr[2].id>> \in next_map
            /\ <<pr[2].id, pr[1].id>> \in next_map

\* row 30 (a row running right) has a blue node in AIP and one in AIS: the edge
\* from AIP to AIS is there and the edge back is not
C27_Witness ==
    /\ pc = "done"
    /\ \E pr \in AIPAISPairs :
          /\ Round(pr[1].y) = 30
          /\ <<pr[1].id, pr[2].id>> \in next_map
          /\ <<pr[2].id, pr[1].id>> \notin next_map

------------------------------------------------------------------------------
(* C28 *)

\* the edge goes to smaller y
GoesUp(e) == NodeOf[e[2]].y < NodeOf[e[1]].y

\* C28 as stated: no two blue nodes of a column are linked both ways, and no column
\* has both a blue-to-blue edge going up and one going down.
C28_OneWayColumns ==
    pc = "done" =>
        /\ \A e \in BlueVerticalEdges : <<e[2], e[1]>> \notin next_map
        /\ \A e, f \in BlueVerticalEdges :
              NodeOf[e[1]].x = NodeOf[f[1]].x => GoesUp(e) = GoesUp(f)

\* C28, amended: two blue nodes of a column are linked both ways only in a column
\* of AIS..AIV and only when both have the vertical direction of their run offsets
\* (first two columns of a run up, the others down) opposite to the direction of
\* the column (AIS..AIT up, AIU..AIV down); two blue edges of one column go opposite
\* ways only if the column holds nodes of both run-offset directions or is such a
\* column of AIS..AIV.
C28_BothWaysOnlyAgainstCorridor ==
    pc = "done" =>
        /\ \A e \in BlueVerticalEdges :
              <<e[2], e[1]>> \in next_map =>
                  LET a == NodeOf[e[1]]
                      b == NodeOf[e[2]]
                  IN  /\ CorridorSign(Round(a.x)) # 0
                      /\ UpNode(a) = UpNode(b)
                      /\ UpNode(a) <=> CorridorSign(Round(a.x)) = 1
        /\ \A e, f \in BlueVerticalEdges :
              (NodeOf[e[1]].x = NodeOf[f[1]].x /\ GoesUp(e) # GoesUp(f)) =>
                  \/ UpNode(NodeOf[e[1]]) # UpNode(NodeOf[f[1]])
                  \/ /\ CorridorSign(Round(NodeOf[e[1]].x)) # 0
                     /\ \E g \in {e, f} :
                           UpNode(NodeOf[g[1]]) <=> CorridorSign(Round(NodeOf[g[1]].x)) = 1

\* in column AIU two blue nodes of the first two columns of their runs, two rows
\* apart, are linked both ways; left of AIS a column has an edge going up and an
\* edge going down and no pair linked both ways
C28_Witness ==
    /\ pc = "done"
    /\ \E e \in BlueVerticalEdges :
          /\ <<e[2], e[1]>> \in next_map
          /\ Round(NodeOf[e[1]].x) = x_AIU /\ Rows(NodeOf[e[1]], NodeOf[e[2]]) = 2
    /\ \E e, f \in BlueVerticalEdges :
          /\ NodeOf[e[1]].x = NodeOf[f[1]].x /\ NodeOf[e[1]].x < F(x_AIS)
          /\ GoesUp(e) /\ ~GoesUp(f)
          /\ <<e[2], e[1]>> \notin next_map /\ <<f[2], f[1]>> \notin next_map

-----------------------------------------------------------------------------
(* C29 *)

\* the ids of the grey nodes
GreyIds == {points[i].id : i \in {j \in 1..Len(points) : points[j].region = "grey"}}

\* the edges with a grey node at one end at least
GreyEdges ==
    LET G == GreyIds
    IN  {e \in next_map : e[1] \in G \/ e[2] \in G}

\* C29: no edge has two grey ends: the grey nodes of the horizontal bands and of
\* the vertical strip AIY are never linked to one another, neither along a band
\* or the strip nor across lanes, and every edge with a grey node at one end has
\* a purple or a blue node at the other end
C29_NoGreyGreyEdge ==
    LET G  == GreyIds
        PB == {points[i].id : i \in {j \in 1..Len(points) :
                                        points[j].region \in {"purple", "blue"}}}
    IN  \A e \in next_map :
            /\ ~(e[1] \in G /\ e[2] \in G)
            /\ e[1] \in G => e[2] \in PB
            /\ e[2] \in G => e[1] \in PB

\* the layout is assembled with a grey band and the grey strip; grey nodes are
\* linked to purple nodes and to blue nodes, while two nodes next to each other
\* on a band and two nodes next to each other on the strip have no edge between
\* them
C29_Witness ==
    /\ pc = "done"
    /\ LET G  == GreyIds
           GE == GreyEdges
           N  == NodeOf
       IN  /\ \E e \in GE : e[1] \in G /\ N[e[2]].region = "purple"
           /\ \E e \in GE : e[1] \in G /\ N[e[2]].region = "blue"
           /\ \E e \in GE : e[2] \in G /\ N[e[1]].region = "blue"
           /\ \E a, b \in G :
                 /\ N[a].kind = "h" /\ N[b].kind = "h"
                 /\ N[a].y = N[b].y /\ N[a].x < N[b].x
                 /\ \A c \in G : N[c].y = N[a].y => ~(N[a].x < N[c].x /\ N[c].x < N[b].x)
                 /\ <<a, b>> \notin next_map /\ <<b, a>> \notin next_map
           /\ \E a, b \in G :
                 /\ N[a].kind = "v" /\ N[b].kind = "v"
                 /\ N[a].x = N[b].x /\ N[a].y < N[b].y
                 /\ \A c \in G : N[c].x = N[a].x => ~(N[a].y < N[c].y /\ N[c].y < N[b].y)
                 /\ <<a, b>> \notin next_map /\ <<b, a>> \notin next_map

====
